---- MODULE Spec2Model ----
(***************************************************************************)
(* Model of the schedule generator (services/scheduler: getCourseYear,     *)
(* createAvailabilityMatrices, placeUnits, generateSchedule, fixSchedule,  *)
(* validateMove, findAllConflicts) of tcasaniv/generador-de-horarios.      *)
(*                                                                         *)
(* Strings the code takes apart (course codes, studentGroupId, teacher     *)
(* ids) are sequences of one-character strings, so that split("-"),        *)
(* substring, parseInt and startsWith are computed as the code computes    *)
(* them.  A JS null / undefined / "" (all falsy) id is the empty sequence. *)
(* getCourseYear's number | null is <<n>> | <<>>.                          *)
(***************************************************************************)
EXTENDS Integers, Sequences, FiniteSets, TLC

VARIABLES state, options, op, arg, result

vars == <<state, options, op, arg, result>>

(***************************************************************************)
(* Bounds of the model                                                     *)
(***************************************************************************)
\* number of week days modelled (a prefix of DAYS_OF_WEEK)
NumDays == 2
\* number of time slots modelled (a prefix of TIME_SLOTS)
NumSlots == 3
\* largest number of required hours of a course per session type
MaxHours == 2
\* largest number of pinned entries handed to generateSchedule
MaxPinned == 2
\* largest number of entries of a schedule handed to fixSchedule
MaxEntries == 2

(***************************************************************************)
(* constants.ts                                                            *)
(***************************************************************************)
\* DAYS_OF_WEEK of constants.ts (Miércoles written without its accent)
AllDays == <<"Lunes", "Martes", "Miercoles", "Jueves", "Viernes">>

DayIdx == 0 .. (NumDays - 1)

SlotIdx == 0 .. (NumSlots - 1)

DAYS_OF_WEEK == [i \in DayIdx |-> AllDays[i + 1]]

TIME_SLOTS == [j \in SlotIdx |-> j]

Days == {DAYS_OF_WEEK[i] : i \in DayIdx}

\* dayMap[day]; -1 stands for undefined (a day that is not in DAYS_OF_WEEK)
dayMap(day) == IF day \in Days THEN CHOOSE i \in DayIdx : DAYS_OF_WEEK[i] = day ELSE -1

(***************************************************************************)
(* String helpers (JS semantics)                                           *)
(***************************************************************************)
Digits == {"0", "1", "2", "3", "4", "5", "6", "7", "8", "9"}

DigitVal(c) == CASE c = "0" -> 0 [] c = "1" -> 1 [] c = "2" -> 2 [] c = "3" -> 3
                 [] c = "4" -> 4 [] c = "5" -> 5 [] c = "6" -> 6 [] c = "7" -> 7
                 [] c = "8" -> 8 [] c = "9" -> 9

DigitChar(n) == CASE n = 0 -> "0" [] n = 1 -> "1" [] n = 2 -> "2" [] n = 3 -> "3"
                  [] n = 4 -> "4" [] n = 5 -> "5" [] n = 6 -> "6" [] n = 7 -> "7"
                  [] n = 8 -> "8" [] n = 9 -> "9"

\* the value that stands for JS undefined where a string is expected
Undefined == <<"undefined">>

\* a null / undefined / empty id
Null == <<>>

RECURSIVE SplitFrom(_, _, _)
\* s.split("-"), from position k on, cur being the part read so far
SplitFrom(s, k, cur) ==
    IF k > Len(s) THEN <<cur>>
    ELSE IF s[k] = "-" THEN <<cur>> \o SplitFrom(s, k + 1, <<>>)
    ELSE SplitFrom(s, k + 1, Append(cur, s[k]))

Split(s) == SplitFrom(s, 1, <<>>)

\* parts[k] of a destructured split (0-based k); undefined past the end
Part(parts, k) == IF k + 1 <= Len(parts) THEN parts[k + 1] ELSE Undefined

\* parseInt(s, 10) of a two-character string: <<>> is NaN, <<n>> a number.
\* Leading blank and sign are read as parseInt reads them.
ParseInt2(s) ==
    IF Len(s) = 0 THEN <<>>
    ELSE IF s[1] \in Digits
         THEN IF Len(s) >= 2 /\ s[2] \in Digits
              THEN <<10 * DigitVal(s[1]) + DigitVal(s[2])>>
              ELSE <<DigitVal(s[1])>>
    ELSE IF s[1] \in {" ", "+"} /\ Len(s) >= 2 /\ s[2] \in Digits
         THEN <<DigitVal(s[2])>>
    ELSE IF s[1] = "-" /\ Len(s) >= 2 /\ s[2] \in Digits
         THEN <<0 - DigitVal(s[2])>>
    ELSE <<>>

\* `${n}` of a number 0..99
FormatNum(n) == IF n < 10 THEN <<DigitChar(n)>>
                ELSE <<DigitChar(n \div 10), DigitChar(n % 10)>>

\* JS truthiness of a number | null
TruthyYear(y) == y # <<>> /\ y[1] # 0

\* teacherId.startsWith("TBD_")
StartsWithTBD(t) ==
    Len(t) >= 4 /\ t[1] = "T" /\ t[2] = "B" /\ t[3] = "D" /\ t[4] = "_"

\* faulty variant of RealTeacher: the 'TBD_' prefix is not looked at
RealTeacher_NullOnly(t) == t # Null

\* `(teacherId && !teacherId.startsWith("TBD_"))`: a real, assigned teacher
RealTeacher(t) == t # Null /\ ~StartsWithTBD(t)

(***************************************************************************)
(* getCourseYear                                                           *)
(***************************************************************************)
getCourseYear(courseId) ==
    IF Len(courseId) >= 4
    THEN ParseInt2(SubSeq(courseId, 3, 4))
    ELSE <<>>

\* `${courseYear}-${groupLetter}` or null, as createAvailabilityMatrices and
\* findAllConflicts derive it from an entry's studentGroupId
generalGroupId(studentGroupId) ==
    LET parts == Split(studentGroupId)
        courseYear == getCourseYear(Part(parts, 0))
    IN IF TruthyYear(courseYear)
       THEN FormatNum(courseYear[1]) \o <<"-">> \o Part(parts, 1)
       ELSE Null

\* studentGroups.find(sg => sg.year === courseYear && sg.group === groupLetter),
\* guarded by `courseYear ?`; <<>> when nothing is found, else <<sg>>
findGeneralGroup(studentGroups, courseYear, groupLetter) ==
    IF ~TruthyYear(courseYear) THEN <<>>
    ELSE LET hits == {k \in 1 .. Len(studentGroups) :
                        /\ studentGroups[k].year = courseYear[1]
                        /\ studentGroups[k].group = groupLetter}
         IN IF hits = {} THEN <<>>
            ELSE <<studentGroups[CHOOSE k \in hits : \A h \in hits : k <= h]>>

\* faulty variant of MatrixRow: a day without an array counts as free
MatrixRow_MissingDayFree(availability, day) ==
    IF day \in DOMAIN availability
    THEN [j \in SlotIdx |-> IF j \in DOMAIN availability[day]
                             THEN availability[day][j] ELSE FALSE]
    ELSE [j \in SlotIdx |-> TRUE]

(***************************************************************************)
(* createAvailabilityMatrices                                              *)
(***************************************************************************)
\* availability[day]?.slice() || Array(TIME_SLOTS.length).fill(false):
\* one row of a matrix; a declared row may be shorter than TIME_SLOTS
\* (a missing element reads as undefined, which `?? false` makes false)
MatrixRow(availability, day) ==
    IF day \in DOMAIN availability
    THEN [j \in SlotIdx |-> IF j \in DOMAIN availability[day]
                             THEN availability[day][j] ELSE FALSE]
    ELSE [j \in SlotIdx |-> FALSE]

\* entities.forEach(x => matrices[x.id] = ...): a later entity with the same
\* id overwrites an earlier one
MatrixOf(entities) ==
    LET ids == {entities[k].id : k \in 1 .. Len(entities)}
        last(id) == CHOOSE k \in 1 .. Len(entities) :
                       /\ entities[k].id = id
                       /\ \A h \in 1 .. Len(entities) : entities[h].id = id => h <= k
    IN [id \in ids |->
          [i \in DayIdx |-> MatrixRow(entities[last(id)].availability, DAYS_OF_WEEK[i])]]

\* matrix[id][dayIndex][timeSlot] = false
ClearCell(matrix, id, dayIndex, timeSlot) ==
    IF timeSlot \in SlotIdx
    THEN [matrix EXCEPT ![id][dayIndex][timeSlot] = FALSE]
    ELSE matrix

\* faulty variant of BlockEntry: the teacher's cell is left as declared
BlockEntry_NoTeacher(matrices, entry, ignoreEntryId) ==
    LET dayIndex == dayMap(entry.day)
        gid == generalGroupId(entry.studentGroupId)
    IN IF entry.id = ignoreEntryId THEN matrices
       ELSE IF dayIndex = -1 THEN matrices
       ELSE [teachers |-> matrices.teachers,
             rooms |->
                IF entry.roomId # "" /\ entry.roomId \in DOMAIN matrices.rooms
                THEN ClearCell(matrices.rooms, entry.roomId, dayIndex, entry.timeSlot)
                ELSE matrices.rooms,
             studentGroups |->
                IF gid # Null /\ gid \in DOMAIN matrices.studentGroups
                THEN ClearCell(matrices.studentGroups, gid, dayIndex, entry.timeSlot)
                ELSE matrices.studentGroups]

\* the body of existingSchedule.forEach(entry => ...)
BlockEntry(matrices, entry, ignoreEntryId) ==
    LET dayIndex == dayMap(entry.day)
        gid == generalGroupId(entry.studentGroupId)
    IN IF entry.id = ignoreEntryId THEN matrices
       ELSE IF dayIndex = -1 THEN matrices
       ELSE [teachers |->
                IF entry.teacherId # Null /\ entry.teacherId \in DOMAIN matrices.teachers
                THEN ClearCell(matrices.teachers, entry.teacherId, dayIndex, entry.timeSlot)
                ELSE matrices.teachers,
             rooms |->
                IF entry.roomId # "" /\ entry.roomId \in DOMAIN matrices.rooms
                THEN ClearCell(matrices.rooms, entry.roomId, dayIndex, entry.timeSlot)
                ELSE matrices.rooms,
             studentGroups |->
                IF gid # Null /\ gid \in DOMAIN matrices.studentGroups
                THEN ClearCell(matrices.studentGroups, gid, dayIndex, entry.timeSlot)
                ELSE matrices.studentGroups]

RECURSIVE BlockAll(_, _, _, _)
BlockAll(matrices, existingSchedule, k, ignoreEntryId) ==
    IF k > Len(existingSchedule) THEN matrices
    ELSE BlockAll(BlockEntry(matrices, existingSchedule[k], ignoreEntryId),
                  existingSchedule, k + 1, ignoreEntryId)

createAvailabilityMatrices(teachers, rooms, studentGroups, existingSchedule, ignoreEntryId) ==
    BlockAll([teachers |-> MatrixOf(teachers),
              rooms |-> MatrixOf(rooms),
              studentGroups |-> MatrixOf(studentGroups)],
             existingSchedule, 1, ignoreEntryId)

\* matrices.x[id]?.[i]?.[j] ?? false
IsFree(matrix, id, i, j) ==
    IF id \in DOMAIN matrix THEN matrix[id][i][j] ELSE FALSE

\* !matrices.x[id]?.[i]?.[j]  (an undefined cell is falsy, so its negation is true)
IsNotFree(matrix, id, i, j) ==
    IF id \in DOMAIN matrix /\ j \in SlotIdx THEN ~matrix[id][i][j] ELSE TRUE

\* faulty variant of sortUnits: the units are left in input order
sortUnits_InputOrder(unitsToPlace) == unitsToPlace

(***************************************************************************)
(* placeUnits                                                              *)
(***************************************************************************)
\* unitsToPlace.sort(...): labs, then practices, then the rest; Array.prototype.sort
\* is stable, so the input order is kept within each class
sortUnits(unitsToPlace) ==
    LET isLab(u) == u.sessionType = "lab"
        isPractice(u) == u.sessionType = "practice"
        isOther(u) == u.sessionType # "lab" /\ u.sessionType # "practice"
    IN SelectSeq(unitsToPlace, isLab) \o SelectSeq(unitsToPlace, isPractice)
         \o SelectSeq(unitsToPlace, isOther)

\* faulty variant of roomsOfType: the capacity is not looked at
roomsOfType_AnyCapacity(rooms, type, studentCount) ==
    LET fits(room) == room.type = type
    IN SelectSeq(rooms, fits)

\* rooms.filter(room => room.type === type && (studentCount === 0 || capacity >= studentCount))
roomsOfType(rooms, type, studentCount) ==
    LET fits(room) == /\ room.type = type
                      /\ (studentCount = 0 \/ room.capacity >= studentCount)
    IN SelectSeq(rooms, fits)

\* the generalStudentGroup of a unit or entry, <<>> or <<sg>>
groupOfId(studentGroups, studentGroupId) ==
    LET parts == Split(studentGroupId)
    IN findGeneralGroup(studentGroups, getCourseYear(Part(parts, 0)), Part(parts, 1))

\* faulty variant of feasibleCell: the teacher's matrix is not looked at
feasibleCell_NoTeacher(matrices, unit, gsg, roomId, i, j) ==
    /\ IsFree(matrices.rooms, roomId, i, j)
    /\ IF gsg # <<>>
       THEN IsFree(matrices.studentGroups, gsg[1].id, i, j)
       ELSE TRUE

\* isRoomFree && isTeacherFree && isStudentGroupFree at (room, i, j)
feasibleCell(matrices, unit, gsg, roomId, i, j) ==
    /\ IsFree(matrices.rooms, roomId, i, j)
    /\ IF RealTeacher(unit.teacherId)
       THEN IsFree(matrices.teachers, unit.teacherId, i, j)
       ELSE TRUE
    /\ IF gsg # <<>>
       THEN IsFree(matrices.studentGroups, gsg[1].id, i, j)
       ELSE TRUE

\* faulty variant of cellScore: +10 once per entity, whichever neighbour is taken
cellScore_OncePerEntity(matrices, opts, unit, gsg, i, j) ==
    LET adj(matrix, id) ==
            IF \/ j > 0 /\ IsNotFree(matrix, id, i, j - 1)
               \/ j < NumSlots - 1 /\ IsNotFree(matrix, id, i, j + 1)
            THEN 10 ELSE 0
    IN (IF /\ opts.compactTeachers
           /\ RealTeacher(unit.teacherId)
           /\ unit.teacherId \in DOMAIN matrices.teachers
        THEN adj(matrices.teachers, unit.teacherId) ELSE 0)
     + (IF /\ opts.compactStudents
           /\ gsg # <<>>
           /\ gsg[1].id \in DOMAIN matrices.studentGroups
        THEN adj(matrices.studentGroups, gsg[1].id) ELSE 0)

\* the score of a feasible cell
cellScore(matrices, opts, unit, gsg, i, j) ==
    LET adj(matrix, id) ==
            (IF j > 0 /\ IsNotFree(matrix, id, i, j - 1) THEN 10 ELSE 0)
          + (IF j < NumSlots - 1 /\ IsNotFree(matrix, id, i, j + 1) THEN 10 ELSE 0)
    IN (IF /\ opts.compactTeachers
           /\ RealTeacher(unit.teacherId)
           /\ unit.teacherId \in DOMAIN matrices.teachers
        THEN adj(matrices.teachers, unit.teacherId) ELSE 0)
     + (IF /\ opts.compactStudents
           /\ gsg # <<>>
           /\ gsg[1].id \in DOMAIN matrices.studentGroups
        THEN adj(matrices.studentGroups, gsg[1].id) ELSE 0)

RECURSIVE scanCells_LastWins(_, _, _, _, _, _, _)
\* faulty variant of scanCells: `>=` for `>`, so the last of the best cells wins
scanCells_LastWins(matrices, opts, unit, gsg, compatibleRooms, n, bestSlot) ==
    IF n >= Len(compatibleRooms) * NumDays * NumSlots THEN bestSlot
    ELSE LET room == compatibleRooms[(n \div (NumDays * NumSlots)) + 1]
             i == (n % (NumDays * NumSlots)) \div NumSlots
             j == n % NumSlots
             score == cellScore(matrices, opts, unit, gsg, i, j)
             next == IF /\ feasibleCell(matrices, unit, gsg, room.id, i, j)
                        /\ (bestSlot = <<>> \/ score >= bestSlot[1].score)
                     THEN <<[day |-> DAYS_OF_WEEK[i], timeSlot |-> j,
                             roomId |-> room.id, score |-> score]>>
                     ELSE bestSlot
         IN scanCells_LastWins(matrices, opts, unit, gsg, compatibleRooms, n + 1, next)

RECURSIVE scanCells(_, _, _, _, _, _, _)
\* the three nested loops over compatibleRooms x DAYS_OF_WEEK x TIME_SLOTS, cell
\* number n onwards; bestSlot is <<>> (null) or <<[day, timeSlot, roomId, score]>>
scanCells(matrices, opts, unit, gsg, compatibleRooms, n, bestSlot) ==
    IF n >= Len(compatibleRooms) * NumDays * NumSlots THEN bestSlot
    ELSE LET room == compatibleRooms[(n \div (NumDays * NumSlots)) + 1]
             i == (n % (NumDays * NumSlots)) \div NumSlots
             j == n % NumSlots
             score == cellScore(matrices, opts, unit, gsg, i, j)
             next == IF /\ feasibleCell(matrices, unit, gsg, room.id, i, j)
                        /\ (bestSlot = <<>> \/ score > bestSlot[1].score)
                     THEN <<[day |-> DAYS_OF_WEEK[i], timeSlot |-> j,
                             roomId |-> room.id, score |-> score]>>
                     ELSE bestSlot
         IN scanCells(matrices, opts, unit, gsg, compatibleRooms, n + 1, next)

\* generateId(): ids are unique; the n-th generated id
generateId(n) == <<"entry", n>>

\* faulty variant of leaveUnscheduled: the entry of the step before is given up
\* to make room
leaveUnscheduled_Backtracking(acc, unit, reason) ==
    [acc EXCEPT !.unscheduled = Append(@, [unit |-> unit, reason |-> reason]),
                !.schedule = IF @ = <<>> THEN @ ELSE SubSeq(@, 1, Len(@) - 1)]

\* unscheduled.push({ unit, reason }): nothing else of the loop's state changes
leaveUnscheduled(acc, unit, reason) ==
    [acc EXCEPT !.unscheduled = Append(@, [unit |-> unit, reason |-> reason])]

\* faulty variant of failureReason: the teacher is looked at before the group
failureReason_TeacherFirst(gsg, teacherId) ==
    IF ~RealTeacher(teacherId) THEN "RoomGroupAvailability"
    ELSE IF gsg = <<>> THEN "GroupUndefined"
    ELSE "NoCommonSlot"

\* the reason given when no cell was found: `if (!foundValidSlot && bestSlot === null)`
failureReason(gsg, teacherId) ==
    IF gsg = <<>> THEN "GroupUndefined"
    ELSE IF ~RealTeacher(teacherId) THEN "RoomGroupAvailability"
    ELSE "NoCommonSlot"

\* one iteration of `for (const unit of unitsToPlace)`; acc is the loop's state
\* [matrices, schedule, unscheduled, nextId]
placeUnit(acc, unit, appState, opts) ==
    LET rooms == appState.rooms
        gsg == groupOfId(appState.studentGroups, unit.studentGroupId)
        typed == roomsOfType(rooms, unit.requiredRoomType, unit.studentCount)
        aulas == roomsOfType(rooms, "aula", unit.studentCount)
        compatibleRooms == IF Len(typed) = 0 THEN aulas ELSE typed
        reason0 == IF Len(typed) = 0 THEN "FallbackAula" ELSE "NoSpace"
        bestSlot == scanCells(acc.matrices, opts, unit, gsg, compatibleRooms, 0, <<>>)
        bestReason == IF bestSlot # <<>> THEN reason0 ELSE failureReason(gsg, unit.teacherId)
    IN IF Len(compatibleRooms) = 0
       THEN leaveUnscheduled(acc, unit, "NoCapacity")
       ELSE IF bestSlot # <<>>
       THEN LET b == bestSlot[1]
                dayIndex == dayMap(b.day)
                newEntry == [id |-> IF unit.originalId # Null THEN unit.originalId
                                    ELSE generateId(acc.nextId),
                             courseId |-> unit.courseId,
                             teacherId |-> unit.teacherId,
                             roomId |-> b.roomId,
                             studentGroupId |-> unit.studentGroupId,
                             day |-> b.day,
                             timeSlot |-> b.timeSlot,
                             sessionType |-> unit.sessionType,
                             isPinned |-> FALSE]
            IN [matrices |->
                  [rooms |-> ClearCell(acc.matrices.rooms, b.roomId, dayIndex, b.timeSlot),
                   teachers |->
                      IF /\ RealTeacher(unit.teacherId)
                         /\ unit.teacherId \in DOMAIN acc.matrices.teachers
                      THEN ClearCell(acc.matrices.teachers, unit.teacherId,
                                     dayIndex, b.timeSlot)
                      ELSE acc.matrices.teachers,
                   studentGroups |->
                      IF gsg # <<>> /\ gsg[1].id \in DOMAIN acc.matrices.studentGroups
                      THEN ClearCell(acc.matrices.studentGroups, gsg[1].id,
                                     dayIndex, b.timeSlot)
                      ELSE acc.matrices.studentGroups],
                schedule |-> Append(acc.schedule, newEntry),
                unscheduled |-> acc.unscheduled,
                nextId |-> IF unit.originalId # Null THEN acc.nextId ELSE acc.nextId + 1]
       ELSE leaveUnscheduled(acc, unit, bestReason)

RECURSIVE placeLoop(_, _, _, _, _)
placeLoop(acc, units, k, appState, opts) ==
    IF k > Len(units) THEN acc
    ELSE placeLoop(placeUnit(acc, units[k], appState, opts), units, k + 1, appState, opts)

\* placeUnits(unitsToPlace, appState, initialSchedule, options); nextId is the
\* number of ids generateId() has handed out before the call
placeUnits(unitsToPlace, appState, initialSchedule, opts, nextId) ==
    LET matrices == createAvailabilityMatrices(appState.teachers, appState.rooms,
                        appState.studentGroups, initialSchedule, Null)
        acc == placeLoop([matrices |-> matrices, schedule |-> initialSchedule,
                          unscheduled |-> <<>>, nextId |-> nextId],
                         sortUnits(unitsToPlace), 1, appState, opts)
    IN [schedule |-> acc.schedule, unscheduled |-> acc.unscheduled]

(***************************************************************************)
(* generateSchedule                                                        *)
(***************************************************************************)
SESSION_TYPES == <<"theory", "practice", "lab", "seminar">>

RECURSIVE flat(_)
\* the concatenation of the sequences of seqs: what nested forEach loops that push
\* to one array leave in it
flat(seqs) ==
    IF seqs = <<>> THEN <<>> ELSE seqs[1] \o flat(Tail(seqs))

\* `${entry.day}-${entry.timeSlot}-${entry.roomId}`
lockedKey(entry) == <<entry.day, "-", entry.timeSlot, "-", entry.roomId>>

\* faulty variant of addLockedEntry: no check of the key
addLockedEntry_NoDedup(locked, entry) == Append(locked, entry)

\* faulty variant of addLockedEntry: an entry replaces the one set for its key
addLockedEntry_LastWins(locked, entry) ==
    IF \E k \in 1 .. Len(locked) : lockedKey(locked[k]) = lockedKey(entry)
    THEN [k \in 1 .. Len(locked) |->
            IF lockedKey(locked[k]) = lockedKey(entry) THEN entry ELSE locked[k]]
    ELSE Append(locked, entry)

\* addLockedEntry: the Map keeps the first entry set for a key, in insertion order
addLockedEntry(locked, entry) ==
    IF \E k \in 1 .. Len(locked) : lockedKey(locked[k]) = lockedKey(entry)
    THEN locked
    ELSE Append(locked, entry)

RECURSIVE addLockedAll(_, _, _)
addLockedAll(locked, entries, k) ==
    IF k > Len(entries) THEN locked
    ELSE addLockedAll(addLockedEntry(locked, entries[k]), entries, k + 1)

\* faulty variant of activePlan: inactive plan entries are kept
activePlan_All(semesterPlan) == semesterPlan

\* semesterPlan.filter(sc => sc.isActive)
activePlan(semesterPlan) ==
    LET active(sc) == sc.isActive IN SelectSeq(semesterPlan, active)

\* `${courseId}-${group}-${subIndex + 1}` (sub is the 1-based position)
studentGroupIdOf(courseId, group, sub) ==
    courseId \o <<"-">> \o group \o <<"-">> \o FormatNum(sub)

\* the manual slots of the plan that carry a room, in the order of the nested
\* forEach loops, each as the entry handed to addLockedEntry but for its id
manualSlotEntries(semesterPlan) ==
    LET plan == activePlan(semesterPlan)
        ofSlot(sc, g, t, sub, slot) ==
            LET assignment == g[SESSION_TYPES[t]][sub]
                roomId == IF slot.roomId # "" THEN slot.roomId ELSE assignment.roomId
            IN IF roomId # ""
               THEN <<[courseId |-> sc.courseId,
                       teacherId |-> assignment.teacherId,
                       roomId |-> roomId,
                       studentGroupId |-> studentGroupIdOf(sc.courseId, g.group, sub),
                       day |-> slot.day,
                       timeSlot |-> slot.timeSlot,
                       sessionType |-> SESSION_TYPES[t],
                       isPinned |-> TRUE]>>
               ELSE <<>>
        ofAssignment(sc, g, t, sub) ==
            LET slots == g[SESSION_TYPES[t]][sub].manualSlots
            IN flat([m \in 1 .. Len(slots) |-> ofSlot(sc, g, t, sub, slots[m])])
        ofType(sc, g, t) ==
            flat([sub \in 1 .. Len(g[SESSION_TYPES[t]]) |-> ofAssignment(sc, g, t, sub)])
        ofGroup(sc, g) == flat([t \in 1 .. Len(SESSION_TYPES) |-> ofType(sc, g, t)])
        ofCourse(sc) == flat([n \in 1 .. Len(sc.groups) |-> ofGroup(sc, sc.groups[n])])
    IN flat([c \in 1 .. Len(plan) |-> ofCourse(plan[c])])

\* faulty variant of lockedEntries: the manual slots are added before the pinned entries
lockedEntries_ManualFirst(semesterPlan, pinnedEntries) ==
    LET pinned == [k \in 1 .. Len(pinnedEntries) |->
                     [pinnedEntries[k] EXCEPT !.isPinned = TRUE]]
        slots == manualSlotEntries(semesterPlan)
        manual == [k \in 1 .. Len(slots) |->
                     [id |-> generateId(k)] @@ slots[k]]
    IN addLockedAll(addLockedAll(<<>>, manual, 1), pinned, 1)

\* step 1 of generateSchedule: Array.from(lockedEntriesMap.values())
lockedEntries(semesterPlan, pinnedEntries) ==
    LET pinned == [k \in 1 .. Len(pinnedEntries) |->
                     [pinnedEntries[k] EXCEPT !.isPinned = TRUE]]
        slots == manualSlotEntries(semesterPlan)
        manual == [k \in 1 .. Len(slots) |->
                     [id |-> generateId(k)] @@ slots[k]]
    IN addLockedAll(addLockedAll(<<>>, pinned, 1), manual, 1)

\* `${studentGroupId}-${sessionType}`
countKey(studentGroupId, sessionType) == studentGroupId \o <<"-", sessionType>>

\* faulty variant of initialCounts: the locked hours are not counted
initialCounts_Zero(initialSchedule, key) == 0

\* initialCounts[key] || 0
initialCounts(initialSchedule, key) ==
    Cardinality({k \in 1 .. Len(initialSchedule) :
        countKey(initialSchedule[k].studentGroupId, initialSchedule[k].sessionType) = key})

\* (course[`${sessionType}Hours`] as number) || 0
requiredHours(course, sessionType) ==
    CASE sessionType = "theory" -> course.theoryHours
      [] sessionType = "practice" -> course.practiceHours
      [] sessionType = "lab" -> course.labHours
      [] sessionType = "seminar" -> course.seminarHours

\* allCourses.find(c => c.id === courseId): <<>> or <<course>>
findCourse(allCourses, courseId) ==
    LET hits == {k \in 1 .. Len(allCourses) : allCourses[k].id = courseId}
    IN IF hits = {} THEN <<>>
       ELSE <<allCourses[CHOOSE k \in hits : \A h \in hits : k <= h]>>

Max(a, b) == IF a >= b THEN a ELSE b

\* `TBD_${sc.courseId}_${g.group}${subIndex + 1}_${sessionType}`
tbdTeacherId(courseId, group, sub, sessionType) ==
    <<"T", "B", "D", "_">> \o courseId \o <<"_">> \o group \o FormatNum(sub)
        \o <<"_", sessionType>>

\* step 2 of generateSchedule: the units still to be scheduled
classUnitsToSchedule(allCourses, allStudentGroups, semesterPlan, initialSchedule) ==
    LET plan == activePlan(semesterPlan)
        ofAssignment(sc, course, g, t, sub) ==
            LET sessionType == SESSION_TYPES[t]
                assignment == g[sessionType][sub]
                gsg == findGeneralGroup(allStudentGroups, getCourseYear(course.id), g.group)
                studentCount == IF gsg = <<>> THEN 0 ELSE gsg[1].studentCount
                studentGroupId == studentGroupIdOf(course.id, g.group, sub)
                hoursAlreadyPlaced ==
                    initialCounts(initialSchedule, countKey(studentGroupId, sessionType))
                hoursToSchedule ==
                    Max(0, requiredHours(course, sessionType) - hoursAlreadyPlaced)
                unit == [courseId |-> course.id,
                         teacherId |-> IF assignment.teacherId # Null
                                       THEN assignment.teacherId
                                       ELSE tbdTeacherId(sc.courseId, g.group, sub, sessionType),
                         studentGroupId |-> studentGroupId,
                         sessionType |-> sessionType,
                         requiredRoomType |-> IF sessionType = "lab" THEN "laboratorio"
                                              ELSE "aula",
                         studentCount |-> studentCount,
                         originalId |-> Null]
            IN [h \in 1 .. hoursToSchedule |-> unit]
        ofType(sc, course, g, t) ==
            flat([sub \in 1 .. Len(g[SESSION_TYPES[t]]) |-> ofAssignment(sc, course, g, t, sub)])
        ofGroup(sc, course, g) ==
            flat([t \in 1 .. Len(SESSION_TYPES) |-> ofType(sc, course, g, t)])
        ofCourse(sc) ==
            LET found == findCourse(allCourses, sc.courseId)
            IN IF found = <<>> THEN <<>>
               ELSE flat([n \in 1 .. Len(sc.groups) |-> ofGroup(sc, found[1], sc.groups[n])])
    IN flat([c \in 1 .. Len(plan) |-> ofCourse(plan[c])])

generateSchedule(allCourses, allTeachers, allRooms, allStudentGroups, semesterPlan, pinnedEntries, opts) ==
    LET initialSchedule == lockedEntries(semesterPlan, pinnedEntries)
        units == classUnitsToSchedule(allCourses, allStudentGroups, semesterPlan,
                                      initialSchedule)
        appState == [courses |-> allCourses, teachers |-> allTeachers,
                     rooms |-> allRooms, studentGroups |-> allStudentGroups,
                     semesterPlan |-> semesterPlan, schedule |-> initialSchedule]
    IN placeUnits(units, appState, initialSchedule, opts,
                  Len(manualSlotEntries(semesterPlan)) + 1)

(***************************************************************************)
(* validateMove                                                            *)
(***************************************************************************)
\* entities.find(x => x.id === id): <<>> or <<entity>>
findById(entities, id) ==
    LET hits == {k \in 1 .. Len(entities) : entities[k].id = id}
    IN IF hits = {} THEN <<>>
       ELSE <<entities[CHOOSE k \in hits : \A h \in hits : k <= h]>>

\* faulty variant of declaredAvailable: an undeclared day or slot is unavailable
declaredAvailable_MissingIsBusy(availability, day, timeSlot) ==
    IF day \in DOMAIN availability /\ timeSlot \in DOMAIN availability[day]
    THEN availability[day][timeSlot]
    ELSE FALSE

\* availability[day]?.[timeSlot] ?? true: an undeclared day or slot is available
declaredAvailable(availability, day, timeSlot) ==
    IF day \in DOMAIN availability /\ timeSlot \in DOMAIN availability[day]
    THEN availability[day][timeSlot]
    ELSE TRUE

\* part 1 of validateMove: the availability conflicts, as the list of their types
availabilityConflicts(appState, entryToMove, newDay, newTimeSlot) ==
    LET teacher == findById(appState.teachers, entryToMove.teacherId)
        room == findById(appState.rooms, entryToMove.roomId)
        gsg == groupOfId(appState.studentGroups, entryToMove.studentGroupId)
    IN (IF teacher # <<>> /\ ~declaredAvailable(teacher[1].availability, newDay, newTimeSlot)
        THEN <<"teacherAvailability">> ELSE <<>>)
    \o (IF room # <<>> /\ ~declaredAvailable(room[1].availability, newDay, newTimeSlot)
        THEN <<"roomAvailability">> ELSE <<>>)
    \o (IF gsg # <<>> /\ ~declaredAvailable(gsg[1].availability, newDay, newTimeSlot)
        THEN <<"studentGroupAvailability">> ELSE <<>>)

\* faulty variant of collisionConflicts: the teacher check is made for the room as well
collisionConflicts_RoomTwice(entry, entryToMove, newDay, newTimeSlot) ==
    IF entry.id = entryToMove.id THEN <<>>
    ELSE IF ~(entry.day = newDay /\ entry.timeSlot = newTimeSlot) THEN <<>>
    ELSE IF entry.roomId = entryToMove.roomId THEN <<"teacher", "room">> ELSE <<>>

\* the body of `for (const entry of schedule)` in validateMove
collisionConflicts(entry, entryToMove, newDay, newTimeSlot) ==
    LET entryParts == Split(entry.studentGroupId)
        studentGroupIdParts == Split(entryToMove.studentGroupId)
    IN IF entry.id = entryToMove.id THEN <<>>
       ELSE IF ~(entry.day = newDay /\ entry.timeSlot = newTimeSlot) THEN <<>>
       ELSE (IF /\ entry.teacherId # Null
                /\ entry.teacherId = entryToMove.teacherId
                /\ ~StartsWithTBD(entry.teacherId)
             THEN <<"teacher">> ELSE <<>>)
         \o (IF entry.roomId = entryToMove.roomId THEN <<"room">> ELSE <<>>)
         \o (IF /\ Part(entryParts, 1) = Part(studentGroupIdParts, 1)
                /\ getCourseYear(Part(entryParts, 0))
                     = getCourseYear(Part(studentGroupIdParts, 0))
             THEN <<"studentGroup">> ELSE <<>>)

\* validateMove(appState, entryToMove, newDay, newTimeSlot): the types of the
\* conflicts, in the order they are pushed
validateMove(appState, entryToMove, newDay, newTimeSlot) ==
    availabilityConflicts(appState, entryToMove, newDay, newTimeSlot)
    \o flat([k \in 1 .. Len(appState.schedule) |-> collisionConflicts(appState.schedule[k], entryToMove,
                                             newDay, newTimeSlot)])

\* faulty variant of conflictsInPlace: an entry is validated against the
\* entries before it only
conflictsInPlace_OnlyEarlier(appState, currentSchedule, entry) ==
    LET pos == CHOOSE k \in 1 .. Len(currentSchedule) : currentSchedule[k].id = entry.id
        tempState == [appState EXCEPT !.schedule = SubSeq(currentSchedule, 1, pos - 1)]
    IN validateMove(tempState, entry, entry.day, entry.timeSlot)

(***************************************************************************)
(* fixSchedule                                                             *)
(***************************************************************************)
\* validateMove(tempState, entry, entry.day, entry.timeSlot) of the loop of fixSchedule
conflictsInPlace(appState, currentSchedule, entry) ==
    LET others(e) == e.id # entry.id
        tempState == [appState EXCEPT !.schedule = SelectSeq(currentSchedule, others)]
    IN validateMove(tempState, entry, entry.day, entry.timeSlot)

\* faulty variant of isInvalidated: the pin is not looked at
isInvalidated_IgnoresPin(appState, currentSchedule, entry) ==
    Len(conflictsInPlace(appState, currentSchedule, entry)) > 0

\* the entry goes to unitsToFix (and not to validSchedule)
isInvalidated(appState, currentSchedule, entry) ==
    Len(conflictsInPlace(appState, currentSchedule, entry)) > 0 /\ ~entry.isPinned

\* faulty variant of unitToFix: the unit does not carry the id of its entry
unitToFix_NewId(allStudentGroups, entry) ==
    LET courseYear == getCourseYear(entry.courseId)
        groupLetter == Part(Split(entry.studentGroupId), 1)
        gsg == findGeneralGroup(allStudentGroups, courseYear, groupLetter)
    IN [originalId |-> Null,
        courseId |-> entry.courseId,
        teacherId |-> entry.teacherId,
        studentGroupId |-> entry.studentGroupId,
        sessionType |-> entry.sessionType,
        requiredRoomType |-> IF entry.sessionType = "lab" THEN "laboratorio" ELSE "aula",
        studentCount |-> IF gsg = <<>> THEN 0 ELSE gsg[1].studentCount]

\* the re-placement unit fixSchedule makes of a discarded entry
unitToFix(allStudentGroups, entry) ==
    LET courseYear == getCourseYear(entry.courseId)
        groupLetter == Part(Split(entry.studentGroupId), 1)
        gsg == findGeneralGroup(allStudentGroups, courseYear, groupLetter)
    IN [originalId |-> entry.id,
        courseId |-> entry.courseId,
        teacherId |-> entry.teacherId,
        studentGroupId |-> entry.studentGroupId,
        sessionType |-> entry.sessionType,
        requiredRoomType |-> IF entry.sessionType = "lab" THEN "laboratorio" ELSE "aula",
        studentCount |-> IF gsg = <<>> THEN 0 ELSE gsg[1].studentCount]

fixSchedule(allCourses, allTeachers, allRooms, allStudentGroups, semesterPlan, currentSchedule, opts) ==
    LET appState == [courses |-> allCourses, teachers |-> allTeachers,
                     rooms |-> allRooms, studentGroups |-> allStudentGroups,
                     semesterPlan |-> semesterPlan, schedule |-> currentSchedule]
        invalid(e) == isInvalidated(appState, currentSchedule, e)
        valid(e) == ~isInvalidated(appState, currentSchedule, e)
        discarded == SelectSeq(currentSchedule, invalid)
        unitsToFix == [k \in 1 .. Len(discarded) |-> unitToFix(allStudentGroups, discarded[k])]
        validSchedule == SelectSeq(currentSchedule, valid)
    IN IF Len(unitsToFix) = 0
       THEN [schedule |-> currentSchedule, unscheduled |-> <<>>]
       ELSE placeUnits(unitsToFix, appState, validSchedule, opts, 1)

(***************************************************************************)
(* findAllConflicts                                                        *)
(***************************************************************************)
\* the order of ids as strings: "e1" < "e2" < ... < "entry_1" < "entry_2" < ...
idLess(a, b) ==
    LET rank(id) == IF id[1] = "e" THEN 0 ELSE 1
    IN rank(a) < rank(b) \/ (rank(a) = rank(b) /\ a[2] < b[2])

RECURSIVE sortIds(_)
\* ids.sort(): insertion of the last element into the sorted rest
sortIds(ids) ==
    IF Len(ids) <= 1 THEN ids
    ELSE LET rest == sortIds(SubSeq(ids, 1, Len(ids) - 1))
             x == ids[Len(ids)]
             before(y) == ~idLess(x, y)
             after(y) == idLess(x, y)
         IN SelectSeq(rest, before) \o <<x>> \o SelectSeq(rest, after)

RECURSIVE firstOccurrences(_)
\* the keys of an object filled from a list, in insertion order
firstOccurrences(keys) ==
    IF keys = <<>> THEN <<>>
    ELSE LET rest == firstOccurrences(SubSeq(keys, 1, Len(keys) - 1))
             x == keys[Len(keys)]
         IN IF \E k \in 1 .. Len(rest) : rest[k] = x THEN rest ELSE Append(rest, x)

\* `${entry.day}-${entry.timeSlot}`
slotKey(entry) == <<entry.day, "-", entry.timeSlot>>

entryIdsOf(entries) == [k \in 1 .. Len(entries) |-> entries[k].id]

\* addConflict: `some` sorts, in place, the entryIds of every conflict it visits
\* and stops at the first one with the same sorted ids and the same type
addConflict(conflicts, type, entries) ==
    LET target == sortIds(entryIdsOf(entries))
        same(k) == sortIds(conflicts[k].entryIds) = target /\ conflicts[k].type = type
        hits == {k \in 1 .. Len(conflicts) : same(k)}
        visited == IF hits = {} THEN Len(conflicts)
                   ELSE CHOOSE k \in hits : \A h \in hits : k <= h
        sorted == [k \in 1 .. Len(conflicts) |->
                     IF k <= visited
                     THEN [conflicts[k] EXCEPT !.entryIds = sortIds(@)]
                     ELSE conflicts[k]]
    IN IF hits # {} THEN sorted
       ELSE Append(sorted, [type |-> type, entryIds |-> entryIdsOf(entries)])

\* the id under which an entry is filed in teachersInSlot, roomsInSlot or
\* groupsInSlot (Null: it is not filed)
resourceKey(type, e) ==
    CASE type = "teacher" -> IF RealTeacher(e.teacherId) THEN e.teacherId ELSE Null
      [] type = "room" -> IF e.roomId # "" THEN <<e.roomId>> ELSE Null
      [] OTHER -> generalGroupId(e.studentGroupId)

\* the ids of teachersInSlot, roomsInSlot or groupsInSlot, in insertion order
resourceIds(type, entriesInSlot) ==
    LET keyed(e) == resourceKey(type, e) # Null
        es == SelectSeq(entriesInSlot, keyed)
    IN firstOccurrences([k \in 1 .. Len(es) |-> resourceKey(type, es[k])])

RECURSIVE addConflictsOf(_, _, _, _, _)
\* `for (const id in xInSlot) if (xInSlot[id].length > 1) addConflict(...)`, where
\* xInSlot[id] are the entries of the slot filed under id
addConflictsOf(conflicts, type, ids, k, entriesInSlot) ==
    IF k > Len(ids) THEN conflicts
    ELSE LET has(e) == resourceKey(type, e) = ids[k]
             bucket == SelectSeq(entriesInSlot, has)
         IN addConflictsOf(IF Len(bucket) > 1 THEN addConflict(conflicts, type, bucket)
                           ELSE conflicts,
                           type, ids, k + 1, entriesInSlot)

\* faulty variant of slotConflicts: a slot of exactly two entries is skipped
slotConflicts_OffByOne(conflicts, entriesInSlot) ==
    LET c1 == addConflictsOf(conflicts, "teacher",
                             resourceIds("teacher", entriesInSlot), 1, entriesInSlot)
        c2 == addConflictsOf(c1, "room",
                             resourceIds("room", entriesInSlot), 1, entriesInSlot)
    IN IF Len(entriesInSlot) <= 2 THEN conflicts
       ELSE addConflictsOf(c2, "studentGroup",
                           resourceIds("studentGroup", entriesInSlot), 1, entriesInSlot)

\* the collision checks of one time slot
slotConflicts(conflicts, entriesInSlot) ==
    LET c1 == addConflictsOf(conflicts, "teacher",
                             resourceIds("teacher", entriesInSlot), 1, entriesInSlot)
        c2 == addConflictsOf(c1, "room",
                             resourceIds("room", entriesInSlot), 1, entriesInSlot)
    IN IF Len(entriesInSlot) < 2 THEN conflicts
       ELSE addConflictsOf(c2, "studentGroup",
                           resourceIds("studentGroup", entriesInSlot), 1, entriesInSlot)

RECURSIVE allSlotConflicts(_, _, _, _)
allSlotConflicts(conflicts, keys, k, schedule) ==
    IF k > Len(keys) THEN conflicts
    ELSE LET inSlot(e) == slotKey(e) = keys[k]
         IN allSlotConflicts(slotConflicts(conflicts, SelectSeq(schedule, inSlot)),
                             keys, k + 1, schedule)

\* the availability violations of one entry, with its id
entryAvailabilityConflicts(appState, entry) ==
    LET types == availabilityConflicts(appState, entry, entry.day, entry.timeSlot)
    IN IF dayMap(entry.day) = -1 THEN <<>>
       ELSE [k \in 1 .. Len(types) |-> [type |-> types[k], entryIds |-> <<entry.id>>]]

\* findAllConflicts(state): the conflicts as [type, entryIds], in the order pushed
findAllConflicts(appState) ==
    LET schedule == appState.schedule
        keys == firstOccurrences([k \in 1 .. Len(schedule) |-> slotKey(schedule[k])])
    IN allSlotConflicts(<<>>, keys, 1, schedule)
       \o flat([k \in 1 .. Len(schedule) |-> entryAvailabilityConflicts(appState, schedule[k])])

(***************************************************************************)
(* The inputs the operations are applied to                                *)
(***************************************************************************)
T1 == <<"T", "1">>

T2 == <<"T", "2">>

\* course codes: study year 1, unparsable year
IS01 == <<"I", "S", "0", "1", "A">>

ISXX == <<"I", "S", "X", "X", "A">>

GroupA == <<"A">>

FullAvailability == [d \in Days |-> [j \in SlotIdx |-> TRUE]]

\* free at Lunes, slot 0 only
FirstCellOnly == [d \in Days |-> [j \in SlotIdx |-> d = "Lunes" /\ j = 0]]

Teacher(id, availability) == [id |-> id, availability |-> availability]

Room(id, type, capacity, availability) ==
    [id |-> id, type |-> type, capacity |-> capacity, availability |-> availability]

StudentGroup(id, year, group, studentCount, availability) ==
    [id |-> id, year |-> year, group |-> group, studentCount |-> studentCount,
     availability |-> availability]

Course(id, theoryHours, labHours) ==
    [id |-> id, theoryHours |-> theoryHours, practiceHours |-> 0,
     labHours |-> labHours, seminarHours |-> 0]

SubgroupAssignment(teacherId, roomId, manualSlots) ==
    [teacherId |-> teacherId, roomId |-> roomId, manualSlots |-> manualSlots]

ScheduleEntry(id, courseId, teacherId, roomId, studentGroupId, day, timeSlot, sessionType, isPinned) ==
    [id |-> id, courseId |-> courseId, teacherId |-> teacherId, roomId |-> roomId,
     studentGroupId |-> studentGroupId, day |-> day, timeSlot |-> timeSlot,
     sessionType |-> sessionType, isPinned |-> isPinned]

\* the StudentGroup collections tried: none, the group of year 1 letter A under
\* the id "1-A", and the same group under another id
GroupChoices ==
    {<<>>,
     <<StudentGroup(<<"1", "-", "A">>, 1, GroupA, 20, FullAvailability)>>,
     <<StudentGroup(<<"G", "1">>, 1, GroupA, 20, FullAvailability)>>}

NoOptions == [compactTeachers |-> FALSE, compactStudents |-> FALSE]

BothCompact == [compactTeachers |-> TRUE, compactStudents |-> TRUE]

NoResult == [schedule |-> <<>>, unscheduled |-> <<>>]

\* sequences of at most n elements of S
RECURSIVE SeqsUpTo(_, _)
SeqsUpTo(S, n) ==
    IF n = 0 THEN {<<>>}
    ELSE LET shorter == SeqsUpTo(S, n - 1)
         IN shorter \cup {Append(q, x) : q \in {r \in shorter : Len(r) = n - 1}, x \in S}

(***************************************************************************)
(* SpecGen: generateSchedule applied to bounded inputs                     *)
(***************************************************************************)
\* what a pinned entry of the input may be, but for its id
PinnedChoices ==
    {[teacherId |-> t, roomId |-> r, courseId |-> IS01] :
        t \in {T1, Null}, r \in {"R1", "R2"}}

pinnedOf(choices) ==
    [k \in 1 .. Len(choices) |->
        ScheduleEntry(<<"e", k>>, choices[k].courseId, choices[k].teacherId,
                      choices[k].roomId, studentGroupIdOf(choices[k].courseId, GroupA, 1),
                      "Lunes", 0, "theory", TRUE)]

GenInitOf(pinnedInputs) ==
    /\ \E ra \in {FullAvailability, FirstCellOnly},
          ta \in {FullAvailability, FirstCellOnly},
          gs \in GroupChoices,
          h \in 0 .. MaxHours,
          active \in BOOLEAN,
          tch \in {T1, Null},
          ms \in {<<>>, <<[day |-> "Lunes", timeSlot |-> 0, roomId |-> "R1"]>>},
          pins \in pinnedInputs :
         state = [courses |-> <<Course(IS01, h, 0)>>,
                  teachers |-> <<Teacher(T1, ta)>>,
                  rooms |-> <<Room("R1", "aula", 30, ra),
                              Room("R2", "aula", 30, FullAvailability)>>,
                  studentGroups |-> gs,
                  semesterPlan |->
                     <<[courseId |-> IS01, isActive |-> active,
                        groups |-> <<[group |-> GroupA,
                                      theory |-> <<SubgroupAssignment(tch, "", ms)>>,
                                      practice |-> <<>>, lab |-> <<>>,
                                      seminar |-> <<>>]>>]>>,
                  schedule |-> pinnedOf(pins)]
    /\ options \in {NoOptions, BothCompact}
    /\ op = "input"
    /\ arg = <<>>
    /\ result = NoResult

\* generateSchedule(courses, teachers, rooms, studentGroups, semesterPlan, pinnedEntries, options)
Generate ==
    /\ op = "input"
    /\ op' = "generateSchedule"
    /\ result' = generateSchedule(state.courses, state.teachers, state.rooms,
                                  state.studentGroups, state.semesterPlan,
                                  state.schedule, options)
    /\ UNCHANGED <<state, options, arg>>

GenNext == Generate

GenInit == GenInitOf(SeqsUpTo(PinnedChoices, MaxPinned))

SpecGen == GenInit /\ [][GenNext]_vars

\* generateSchedule without pinned entries: the locked entries are the manual
\* slots of the plan only
GenPlanInit == GenInitOf({<<>>})

SpecGenPlan == GenPlanInit /\ [][GenNext]_vars

(***************************************************************************)
(* SpecFix: fixSchedule applied to bounded inputs                          *)
(***************************************************************************)
IS02 == <<"I", "S", "0", "2", "A">>

\* free everywhere but at Lunes, slot 0
AllButFirstCell == [d \in Days |-> [j \in SlotIdx |-> ~(d = "Lunes" /\ j = 0)]]

Group1A == StudentGroup(<<"1", "-", "A">>, 1, GroupA, 20, FullAvailability)

\* the entries of a schedule, all on Lunes, with ids e1, e2, ...
entriesOf(choices) ==
    [k \in 1 .. Len(choices) |->
        ScheduleEntry(<<"e", k>>, choices[k].courseId, choices[k].teacherId,
                      choices[k].roomId, studentGroupIdOf(choices[k].courseId, GroupA, 1),
                      "Lunes", choices[k].timeSlot, "theory", choices[k].isPinned)]

FixChoices ==
    {[courseId |-> c, teacherId |-> t, roomId |-> r, timeSlot |-> 0, isPinned |-> p] :
        c \in {IS01, ISXX}, t \in {T1, Null}, r \in {"R1", "R2"}, p \in BOOLEAN}

FixInit ==
    /\ \E ra \in {FullAvailability, AllButFirstCell},
          gs \in {<<>>, <<Group1A>>},
          es \in SeqsUpTo(FixChoices, MaxEntries) :
         state = [courses |-> <<Course(IS01, 1, 0), Course(ISXX, 1, 0)>>,
                  teachers |-> <<Teacher(T1, FullAvailability)>>,
                  rooms |-> <<Room("R1", "aula", 30, ra),
                              Room("R2", "aula", 30, FullAvailability)>>,
                  studentGroups |-> gs,
                  semesterPlan |-> <<>>,
                  schedule |-> entriesOf(es)]
    /\ options = NoOptions
    /\ op = "input"
    /\ arg = <<>>
    /\ result = NoResult

\* fixSchedule(courses, teachers, rooms, studentGroups, semesterPlan, schedule, options)
Fix ==
    /\ op = "input"
    /\ op' = "fixSchedule"
    /\ result' = fixSchedule(state.courses, state.teachers, state.rooms,
                             state.studentGroups, state.semesterPlan,
                             state.schedule, options)
    /\ UNCHANGED <<state, options, arg>>

FixNext == Fix

SpecFix == FixInit /\ [][FixNext]_vars

(***************************************************************************)
(* SpecVal: validateMove and findAllConflicts applied to bounded states    *)
(***************************************************************************)
\* the sentinel id generateSchedule gives the unit of an unassigned subgroup
TBD1 == tbdTeacherId(IS01, GroupA, 1, "theory")

ValChoices ==
    {[courseId |-> c, teacherId |-> t, roomId |-> at[1], timeSlot |-> at[2],
      isPinned |-> FALSE] :
        c \in {IS01, IS02, ISXX}, t \in {T1, T2, Null, TBD1},
        at \in {<<"R1", 0>>, <<"R2", 0>>, <<"R1", 1>>}}

\* the cells an entry is moved to
MoveCells == {<<"Lunes", 0>>, <<"Lunes", 1>>}

ValInit ==
    /\ \E a \in {FirstCellOnly},
          es \in SeqsUpTo(ValChoices, MaxEntries) :
         state = [courses |-> <<Course(IS01, 1, 0), Course(IS02, 1, 0), Course(ISXX, 1, 0)>>,
                  teachers |-> <<Teacher(T1, a), Teacher(T2, FullAvailability)>>,
                  rooms |-> <<Room("R1", "aula", 30, a),
                              Room("R2", "aula", 30, FullAvailability)>>,
                  studentGroups |->
                     <<StudentGroup(<<"1", "-", "A">>, 1, GroupA, 20, a),
                       StudentGroup(<<"2", "-", "A">>, 2, GroupA, 20, FullAvailability)>>,
                  semesterPlan |-> <<>>,
                  schedule |-> entriesOf(es)]
    /\ options = NoOptions
    /\ op = "input"
    /\ arg = <<>>
    /\ result = NoResult

\* validateMove(state, entry, newDay, newTimeSlot) for an entry of the schedule
ValidateMove ==
    /\ op = "input"
    /\ \E k \in 1 .. Len(state.schedule), cell \in MoveCells :
          /\ arg' = [entry |-> state.schedule[k], day |-> cell[1], timeSlot |-> cell[2]]
          /\ result' = validateMove(state, state.schedule[k], cell[1], cell[2])
    /\ op' = "validateMove"
    /\ UNCHANGED <<state, options>>

\* findAllConflicts(state)
FindAllConflicts ==
    /\ op = "input"
    /\ op' = "findAllConflicts"
    /\ result' = findAllConflicts(state)
    /\ UNCHANGED <<state, options, arg>>

ValNext == ValidateMove \/ FindAllConflicts

SpecVal == ValInit /\ [][ValNext]_vars

(***************************************************************************)
(* Properties of generateSchedule (SpecGen, SpecGenPlan)                   *)
(***************************************************************************)
Generated == op = "generateSchedule"

\* positions of two different entries of a schedule at the same (day, timeSlot)
SameCellPairs(schedule) ==
    {p \in (1 .. Len(schedule)) \X (1 .. Len(schedule)) :
        /\ p[1] # p[2]
        /\ schedule[p[1]].day = schedule[p[2]].day
        /\ schedule[p[1]].timeSlot = schedule[p[2]].timeSlot}

\* the locked entries of the call: the pinned entries and the manual slots kept
LockedOfCall == lockedEntries(state.semesterPlan, state.schedule)

\* an entry of the output that the placement engine created
NewlyPlaced(k) == k > Len(LockedOfCall)

\* C1: the schedule returned by generateSchedule has no two entries with the
\* same (day, timeSlot, roomId), locked entries included.
C1_NoRoomDoubleBooking ==
    Generated =>
        \A p \in SameCellPairs(result.schedule) :
            result.schedule[p[1]].roomId # result.schedule[p[2]].roomId

\* C1 witness: two pinned entries of the input share (day, timeSlot, roomId), a
\* manual slot names the same cell, and the engine placed a new entry as well.
C1_Witness ==
    /\ Generated
    /\ Len(state.schedule) = 2
    /\ lockedKey(state.schedule[1]) = lockedKey(state.schedule[2])
    /\ Len(manualSlotEntries(state.semesterPlan)) = 1
    /\ \E k \in 1 .. Len(result.schedule) : NewlyPlaced(k)

\* C2 as stated: no two entries of the returned schedule share (day, timeSlot)
\* and a non-sentinel teacher, locked entries included.
C2_NoTeacherOverlap ==
    Generated =>
        \A p \in SameCellPairs(result.schedule) :
            RealTeacher(result.schedule[p[1]].teacherId) =>
                result.schedule[p[1]].teacherId # result.schedule[p[2]].teacherId

\* C2 amended: no newly placed entry shares (day, timeSlot) and a non-sentinel
\* teacher with any other entry of the returned schedule, locked or newly
\* placed; two locked entries are returned as given, overlapping or not.
C2_NoTeacherOverlapOfPlaced ==
    Generated =>
        \A p \in SameCellPairs(result.schedule) :
            (NewlyPlaced(p[1]) /\ RealTeacher(result.schedule[p[1]].teacherId)) =>
                result.schedule[p[1]].teacherId # result.schedule[p[2]].teacherId

\* C2 witness: a locked entry holds teacher T1 at some cell and the engine
\* placed a unit of the same teacher.
C2_Witness ==
    /\ Generated
    /\ \E a, b \in 1 .. Len(result.schedule) :
          /\ ~NewlyPlaced(a)
          /\ NewlyPlaced(b)
          /\ result.schedule[a].teacherId = T1
          /\ result.schedule[b].teacherId = T1

\* C3: no two entries of the returned schedule share (day, timeSlot) and
\* resolve to the same general group (year parsed from the course code, group
\* letter), whether or not that group is declared or has the id "year-letter".
C3_NoGroupOverlap ==
    Generated =>
        \A p \in SameCellPairs(result.schedule) :
            generalGroupId(result.schedule[p[1]].studentGroupId) # Null =>
                generalGroupId(result.schedule[p[1]].studentGroupId)
                    # generalGroupId(result.schedule[p[2]].studentGroupId)

\* the first pinned entry of the input with the key of pinned entry k
FirstWithKey(k) ==
    \A h \in 1 .. (k - 1) : lockedKey(state.schedule[h]) # lockedKey(state.schedule[k])

\* pinned entry k of the input is in the returned schedule, same id and cell
PinKept(k) ==
    \E n \in 1 .. Len(result.schedule) :
        /\ result.schedule[n].id = state.schedule[k].id
        /\ result.schedule[n].day = state.schedule[k].day
        /\ result.schedule[n].timeSlot = state.schedule[k].timeSlot
        /\ result.schedule[n].roomId = state.schedule[k].roomId

\* C4 as stated: every pinned entry passed to generateSchedule is in the
\* returned schedule with the same id, day, timeSlot and roomId, also when two
\* pinned entries share a (day, timeSlot, roomId) cell.
C4_EveryPinKept ==
    Generated => \A k \in 1 .. Len(state.schedule) : PinKept(k)

\* C4 amended: every pinned entry that is the first of pinnedEntries with its
\* (day, timeSlot, roomId) is in the returned schedule with the same id, day,
\* timeSlot and roomId (a manual slot of the plan never displaces it); a pinned
\* entry that shares the cell of an earlier pinned entry is dropped.
C4_FirstPinKept ==
    Generated =>
        \A k \in 1 .. Len(state.schedule) :
            IF FirstWithKey(k) THEN PinKept(k)
            ELSE \A n \in 1 .. Len(result.schedule) :
                    result.schedule[n].id # state.schedule[k].id

\* C4 witness: two pinned entries share a cell, and a manual slot of the plan
\* asks for that cell too.
C4_Witness ==
    /\ Generated
    /\ Len(state.schedule) = 2
    /\ ~FirstWithKey(2)
    /\ \E m \in 1 .. Len(manualSlotEntries(state.semesterPlan)) :
          lockedKey(manualSlotEntries(state.semesterPlan)[m]) = lockedKey(state.schedule[1])

\* the number of elements of a sequence that satisfy a test
Count(seq, Test(_)) == Cardinality({k \in 1 .. Len(seq) : Test(seq[k])})

\* placed hours + unscheduled hours of (studentGroupId, sessionType)
HoursAccounted(studentGroupId, sessionType) ==
    LET isEntry(e) == e.studentGroupId = studentGroupId /\ e.sessionType = sessionType
        isUnit(u) == /\ u.unit.studentGroupId = studentGroupId
                     /\ u.unit.sessionType = sessionType
    IN Count(result.schedule, isEntry) + Count(result.unscheduled, isUnit)

\* locked entries of (studentGroupId, sessionType)
HoursLocked(studentGroupId, sessionType) ==
    LET isEntry(e) == e.studentGroupId = studentGroupId /\ e.sessionType = sessionType
    IN Count(LockedOfCall, isEntry)

\* P(course, studentGroupId, sessionType) for every subgroup assignment of every
\* active plan course found in the course list
ForEachAssignment(P(_, _, _)) ==
    \A c \in 1 .. Len(state.semesterPlan) :
        LET sc == state.semesterPlan[c]
            found == findById(state.courses, sc.courseId)
        IN (sc.isActive /\ found # <<>>) =>
              \A n \in 1 .. Len(sc.groups), t \in 1 .. Len(SESSION_TYPES) :
                  \A sub \in 1 .. Len(sc.groups[n][SESSION_TYPES[t]]) :
                      P(found[1], studentGroupIdOf(sc.courseId, sc.groups[n].group, sub),
                        SESSION_TYPES[t])

\* C6 as stated: for every active plan course found in the course list and every
\* (studentGroupId, sessionType) of its assignments, the entries of the returned
\* schedule plus the returned unscheduled units with it number requiredHours.
C6_Conservation ==
    Generated =>
        ForEachAssignment(LAMBDA course, sgid, type :
            HoursAccounted(sgid, type) = requiredHours(course, type))

\* C6 amended: they number the larger of requiredHours and the number of
\* locked entries (pinned entries and manual slots kept) with that
\* (studentGroupId, sessionType): hours locked beyond the required ones stay.
C6_ConservationOrLocked ==
    Generated =>
        ForEachAssignment(LAMBDA course, sgid, type :
            HoursAccounted(sgid, type)
                = Max(requiredHours(course, type), HoursLocked(sgid, type)))

\* C6 witness: an active course that needs two hours, one placed by the engine
\* and one returned as unscheduled.
C6_Witness ==
    /\ Generated
    /\ state.semesterPlan[1].isActive
    /\ state.courses[1].theoryHours = 2
    /\ Len(result.unscheduled) = 1
    /\ \E k \in 1 .. Len(result.schedule) : NewlyPlaced(k)

(***************************************************************************)
(* Properties of fixSchedule (SpecFix)                                     *)
(***************************************************************************)
Fixed == op = "fixSchedule"

\* entry k of the input schedule is in the returned schedule, same id and cell
EntryKept(k) ==
    \E n \in 1 .. Len(result.schedule) :
        /\ result.schedule[n].id = state.schedule[k].id
        /\ result.schedule[n].day = state.schedule[k].day
        /\ result.schedule[n].timeSlot = state.schedule[k].timeSlot
        /\ result.schedule[n].roomId = state.schedule[k].roomId

\* C5: every entry of fixSchedule's input with isPinned = true is in the
\* returned schedule with the same id, day, timeSlot and roomId, whether or not
\* it has conflicts.
C5_FixKeepsPinned ==
    Fixed =>
        \A k \in 1 .. Len(state.schedule) :
            state.schedule[k].isPinned => EntryKept(k)

\* C5 witness: a pinned entry that validateMove finds in conflict, next to an
\* unpinned entry that fixSchedule discarded and placed again elsewhere.
C5_Witness ==
    /\ Fixed
    /\ \E k, h \in 1 .. Len(state.schedule) :
          /\ state.schedule[k].isPinned
          /\ Len(conflictsInPlace(state, state.schedule, state.schedule[k])) > 0
          /\ ~state.schedule[h].isPinned
          /\ ~EntryKept(h)
          /\ \E n \in 1 .. Len(result.schedule) :
                result.schedule[n].id = state.schedule[h].id

\* no room, teacher or general-group collision and no availability violation
\* on any entry of the schedule of appState
ConflictFree(appState) ==
    /\ \A p \in SameCellPairs(appState.schedule) :
          LET a == appState.schedule[p[1]]
              b == appState.schedule[p[2]]
          IN /\ a.roomId # b.roomId
             /\ RealTeacher(a.teacherId) => a.teacherId # b.teacherId
             /\ generalGroupId(a.studentGroupId) # Null =>
                   generalGroupId(a.studentGroupId) # generalGroupId(b.studentGroupId)
    /\ \A k \in 1 .. Len(appState.schedule) :
          LET e == appState.schedule[k]
          IN availabilityConflicts(appState, e, e.day, e.timeSlot) = <<>>

\* C7: fixSchedule applied to a conflict-free schedule returns exactly the
\* input schedule and an empty unscheduled list.
C7_FixIdempotent ==
    (Fixed /\ ConflictFree(state)) =>
        /\ result.schedule = state.schedule
        /\ result.unscheduled = <<>>

(***************************************************************************)
(* Properties of validateMove and findAllConflicts (SpecVal)               *)
(***************************************************************************)
Validated == op = "validateMove"

Scanned == op = "findAllConflicts"

\* a null or 'TBD_'-prefixed teacherId
Sentinel(teacherId) == teacherId = Null \/ StartsWithTBD(teacherId)

Has(seq, x) == \E k \in 1 .. Len(seq) : seq[k] = x

\* the entries of the schedule with one of the ids
EntriesWithId(ids) ==
    {k \in 1 .. Len(state.schedule) : Has(ids, state.schedule[k].id)}

NoYear(studentGroupId) == getCourseYear(Part(Split(studentGroupId), 0)) = <<>>

\* C9: when the study year of an entry's course code cannot be parsed, neither
\* validateMove nor findAllConflicts emits a 'studentGroup' or
\* 'studentGroupAvailability' conflict that involves it.
C9_NoGroupCheckWithoutYear ==
    /\ (Validated /\ NoYear(arg.entry.studentGroupId)) =>
          ~Has(result, "studentGroup") /\ ~Has(result, "studentGroupAvailability")
    /\ Scanned =>
          \A c \in 1 .. Len(result) :
              result[c].type \in {"studentGroup", "studentGroupAvailability"} =>
                  \A k \in EntriesWithId(result[c].entryIds) :
                      ~NoYear(state.schedule[k].studentGroupId)

\* the entries other than the moved one at the cell it is moved to
OthersAtTarget ==
    {k \in 1 .. Len(state.schedule) :
        /\ state.schedule[k].id # arg.entry.id
        /\ state.schedule[k].day = arg.day
        /\ state.schedule[k].timeSlot = arg.timeSlot}

\* the case of C10: at the target cell exactly one other entry uses the room of
\* the moved entry; the other entries of the cell have a different teacher and
\* resolve to a different general group than the moved entry; its teacher,
\* room and general group are available there
RoomOnlyCase ==
    /\ Validated
    /\ Cardinality({k \in OthersAtTarget :
            state.schedule[k].roomId = arg.entry.roomId}) = 1
    /\ \A k \in OthersAtTarget :
          /\ state.schedule[k].teacherId # arg.entry.teacherId
          /\ generalGroupId(state.schedule[k].studentGroupId) # Null
          /\ generalGroupId(arg.entry.studentGroupId) # Null
          /\ generalGroupId(state.schedule[k].studentGroupId)
                # generalGroupId(arg.entry.studentGroupId)
    /\ availabilityConflicts(state, arg.entry, arg.day, arg.timeSlot) = <<>>

\* C10: validateMove of an entry moved to a cell where exactly one other entry
\* uses the same room, with a different teacher and a different general group,
\* and where teacher, room and group are available, returns exactly one
\* conflict, of type 'room'.
C10_RoomConflictOnly == RoomOnlyCase => result = <<"room">>

\* C10 witness: the case, with the moved entry coming from another cell.
C10_Witness ==
    /\ RoomOnlyCase
    /\ arg.entry.timeSlot # arg.timeSlot

(***************************************************************************)
(* Properties of findAllConflicts (SpecVal), continued                     *)
(***************************************************************************)
\* the id an entry carries for a collision type: its non-sentinel teacher, its
\* room, its general group; Null when it carries none
CarriedId(type, e) ==
    CASE type = "teacher" -> IF Sentinel(e.teacherId) THEN Null ELSE e.teacherId
      [] type = "room" -> IF e.roomId = "" THEN Null ELSE <<e.roomId>>
      [] OTHER -> generalGroupId(e.studentGroupId)

\* the ids of the entries of the schedule at e's cell that carry e's id of the type
Sharing(type, e) ==
    {x.id : x \in {state.schedule[k] : k \in
        {k \in 1 .. Len(state.schedule) :
            /\ state.schedule[k].day = e.day
            /\ state.schedule[k].timeSlot = e.timeSlot
            /\ CarriedId(type, state.schedule[k]) = CarriedId(type, e)}}}

IdSet(ids) == {ids[k] : k \in 1 .. Len(ids)}

CollisionTypes == {"teacher", "room", "studentGroup"}

\* C11: for each cell and each teacher, room or general-group id carried by
\* k >= 2 entries of the cell, findAllConflicts returns exactly one conflict of
\* that type whose entryIds are exactly those k entries, and it never returns
\* two conflicts with the same type and the same set of entry ids.
C11_OneConflictPerSharedId ==
    Scanned =>
       /\ \A type \in CollisionTypes : \A k \in 1 .. Len(state.schedule) :
             LET e == state.schedule[k]
                 hits == {n \in 1 .. Len(result) :
                            /\ result[n].type = type
                            /\ IdSet(result[n].entryIds) = Sharing(type, e)}
             IN (CarriedId(type, e) # Null /\ Cardinality(Sharing(type, e)) >= 2) =>
                   /\ Cardinality(hits) = 1
                   /\ \A n \in hits :
                         Len(result[n].entryIds) = Cardinality(Sharing(type, e))
       /\ \A n, m \in 1 .. Len(result) :
             (n # m /\ result[n].type = result[m].type) =>
                IdSet(result[n].entryIds) # IdSet(result[m].entryIds)
       /\ \A n \in 1 .. Len(result) :
             result[n].type \in CollisionTypes =>
                \E k \in 1 .. Len(state.schedule) :
                   /\ CarriedId(result[n].type, state.schedule[k]) # Null
                   /\ IdSet(result[n].entryIds) = Sharing(result[n].type, state.schedule[k])

\* the scan of a schedule in which two entries of one cell share a teacher and
\* the room as well
C11_Witness ==
    /\ Scanned
    /\ \E k \in 1 .. Len(state.schedule) :
          /\ ~Sentinel(state.schedule[k].teacherId)
          /\ Cardinality(Sharing("teacher", state.schedule[k])) >= 2
          /\ Cardinality(Sharing("room", state.schedule[k])) >= 2
    /\ \E n, m \in 1 .. Len(result) :
          result[n].type = "teacher" /\ result[m].type = "room"

(***************************************************************************)
(* SpecPlace: the loop of placeUnits, one unit per step                    *)
(***************************************************************************)
\* the most units handed to placeUnits
MaxUnits == 2

\* no array for Lunes; the other days are declared, all free
NoLunes == [d \in Days \ {"Lunes"} |-> [j \in SlotIdx |-> TRUE]]

\* free at Lunes, slot 1 only
MiddleCellOnly == [d \in Days |-> [j \in SlotIdx |-> d = "Lunes" /\ j = 1]]

\* the room collections tried
RoomChoices ==
    {<<Room("R1", "aula", 30, FullAvailability), Room("R2", "aula", 30, FullAvailability)>>,
     <<Room("R1", "aula", 30, FullAvailability), Room("L1", "laboratorio", 30, FirstCellOnly)>>,
     <<Room("R1", "aula", 10, FullAvailability), Room("L1", "laboratorio", 10, FullAvailability)>>,
     <<Room("R1", "aula", 30, NoLunes), Room("L1", "laboratorio", 10, FullAvailability)>>}

\* what a unit to place may be: its session type and its teacher
UnitChoices ==
    {[sessionType |-> "lab", teacherId |-> T1],
     [sessionType |-> "lab", teacherId |-> TBD1],
     [sessionType |-> "practice", teacherId |-> T1],
     [sessionType |-> "theory", teacherId |-> T1],
     [sessionType |-> "theory", teacherId |-> TBD1]}

\* the ClassUnit generateSchedule makes for a choice: course IS01, group A,
\* subgroup 1, the head count of the declared general group
unitsOf(choices, studentGroups) ==
    LET gsg == findGeneralGroup(studentGroups, getCourseYear(IS01), GroupA)
    IN [k \in 1 .. Len(choices) |->
          [courseId |-> IS01,
           teacherId |-> choices[k].teacherId,
           studentGroupId |-> studentGroupIdOf(IS01, GroupA, 1),
           sessionType |-> choices[k].sessionType,
           requiredRoomType |-> IF choices[k].sessionType = "lab" THEN "laboratorio"
                                ELSE "aula",
           studentCount |-> IF gsg = <<>> THEN 0 ELSE gsg[1].studentCount,
           originalId |-> Null]]

\* the initial schedules tried: none, and one locked entry of teacher T1 and
\* group A in R1 at (Lunes, 2)
LockedChoices ==
    {<<>>,
     <<ScheduleEntry(<<"e", 1>>, IS01, T1, "R1", studentGroupIdOf(IS01, GroupA, 1),
                     "Lunes", 2, "theory", TRUE)>>}

PlaceInit ==
    /\ \E ta \in {FullAvailability, FirstCellOnly, MiddleCellOnly, NoLunes},
          rs \in RoomChoices,
          gs \in {<<>>,
                  <<StudentGroup(<<"1", "-", "A">>, 1, GroupA, 20, FullAvailability)>>,
                  <<StudentGroup(<<"1", "-", "A">>, 1, GroupA, 20, NoLunes)>>},
          locked \in LockedChoices,
          us \in SeqsUpTo(UnitChoices, MaxUnits) :
         /\ state = [courses |-> <<Course(IS01, 1, 1)>>,
                     teachers |-> <<Teacher(T1, ta)>>,
                     rooms |-> rs,
                     studentGroups |-> gs,
                     semesterPlan |-> <<>>,
                     schedule |-> locked]
         /\ arg = [input |-> unitsOf(us, gs)]
    /\ options \in {NoOptions, BothCompact,
                    [compactTeachers |-> TRUE, compactStudents |-> FALSE]}
    /\ op = "input"
    /\ result = NoResult

\* placeUnits up to its loop: the matrices seeded with initialSchedule, the
\* copy of initialSchedule, the sorted units
StartPlace ==
    /\ op = "input"
    /\ op' = "placeUnits"
    /\ result' = [matrices |-> createAvailabilityMatrices(state.teachers, state.rooms,
                                   state.studentGroups, state.schedule, Null),
                  schedule |-> state.schedule,
                  unscheduled |-> <<>>,
                  nextId |-> 1]
    /\ arg' = [input |-> arg.input, units |-> sortUnits(arg.input), k |-> 1,
               before |-> <<>>]
    /\ UNCHANGED <<state, options>>

\* one iteration of `for (const unit of unitsToPlace)`; arg.before keeps the
\* loop's state at the start of the iteration
PlaceStep ==
    /\ op = "placeUnits"
    /\ arg.k <= Len(arg.units)
    /\ result' = placeUnit(result, arg.units[arg.k], state, options)
    /\ arg' = [arg EXCEPT !.k = @ + 1, !.before = <<result>>]
    /\ UNCHANGED <<state, options, op>>

PlaceNext == StartPlace \/ PlaceStep

SpecPlace == PlaceInit /\ [][PlaceNext]_vars

(***************************************************************************)
(* Properties of the placement engine (SpecPlace)                          *)
(***************************************************************************)
Placing == op = "placeUnits"

\* the loop has ended: result holds what placeUnits returns
Placed == Placing /\ arg.k > Len(arg.units)

\* an iteration has just been completed
Stepped == Placing /\ arg.before # <<>>

\* the unit of the iteration just completed, and the loop's state before it
LastUnit == arg.units[arg.k - 1]

Before == arg.before[1]

\* the iteration just completed placed its unit, or left it unscheduled
StepPlaced == Stepped /\ Len(result.schedule) = Len(Before.schedule) + 1

StepFailed == Stepped /\ Len(result.unscheduled) = Len(Before.unscheduled) + 1

\* the entry, or the unscheduled unit, of the iteration just completed
LastEntry == result.schedule[Len(result.schedule)]

LastUnscheduled == result.unscheduled[Len(result.unscheduled)]

\* the loop of SpecPlace ends in what placeUnits returns
PlaceStepsAgree ==
    Placed =>
       [schedule |-> result.schedule, unscheduled |-> result.unscheduled]
          = placeUnits(arg.input, state, state.schedule, options, 1)

\* the matrices placeUnits starts from
InitialMatrices ==
    createAvailabilityMatrices(state.teachers, state.rooms, state.studentGroups,
                               state.schedule, Null)

Cells == DayIdx \X SlotIdx

\* the cells at which a teacher is free when placeUnits starts
FreeCellsOf(teacherId) ==
    {c \in Cells : IsFree(InitialMatrices.teachers, teacherId, c[1], c[2])}

\* the entries the placement engine added to the initial schedule
PlacedEntries ==
    {result.schedule[n] : n \in Len(state.schedule) + 1 .. Len(result.schedule)}

\* the rooms the engine scans for a unit
CompatibleRooms(unit) ==
    LET typed == roomsOfType(state.rooms, unit.requiredRoomType, unit.studentCount)
    IN IF Len(typed) = 0 THEN roomsOfType(state.rooms, "aula", unit.studentCount)
       ELSE typed

\* a unit has, when placeUnits starts, a compatible room free at the cell at
\* which its declared general group (if any) is free too
RoomAndGroupFreeAt(unit, c) ==
    LET gsg == groupOfId(state.studentGroups, unit.studentGroupId)
    IN /\ \E n \in 1 .. Len(CompatibleRooms(unit)) :
             IsFree(InitialMatrices.rooms, CompatibleRooms(unit)[n].id, c[1], c[2])
       /\ gsg # <<>> => IsFree(InitialMatrices.studentGroups, gsg[1].id, c[1], c[2])

\* the case of C12: placeUnits has run on two units of one non-sentinel
\* teacher who had exactly one free cell
TwoUnitsOneFreeCell ==
    /\ Placed
    /\ Len(arg.units) = 2
    /\ ~Sentinel(arg.units[1].teacherId)
    /\ arg.units[1].teacherId = arg.units[2].teacherId
    /\ Cardinality(FreeCellsOf(arg.units[1].teacherId)) = 1

AvailabilityReasons == {"RoomGroupAvailability", "NoCommonSlot"}

DeclaredFree(availability, day, timeSlot) ==
    /\ day \in DOMAIN availability
    /\ timeSlot \in DOMAIN availability[day]
    /\ availability[day][timeSlot]

\* the entities of a collection with the id
WithId(entities, id) == {entities[k] : k \in {k \in 1 .. Len(entities) : entities[k].id = id}}

\* C13: every entry the placement engine places sits at a cell that its room
\* declares free, that its non-sentinel teacher declares free and that its
\* general group, when declared, declares free; a day without an availability
\* array is unavailable.
C13_PlacedWhereDeclaredFree ==
    Placing =>
       \A e \in PlacedEntries :
          LET gsg == groupOfId(state.studentGroups, e.studentGroupId)
          IN /\ WithId(state.rooms, e.roomId) # {}
             /\ \A r \in WithId(state.rooms, e.roomId) :
                   DeclaredFree(r.availability, e.day, e.timeSlot)
             /\ ~Sentinel(e.teacherId) =>
                   /\ WithId(state.teachers, e.teacherId) # {}
                   /\ \A t \in WithId(state.teachers, e.teacherId) :
                         DeclaredFree(t.availability, e.day, e.timeSlot)
             /\ gsg # <<>> => DeclaredFree(gsg[1].availability, e.day, e.timeSlot)

\* a unit of a teacher who declares no array for Lunes has been placed, on
\* another day, in a schedule whose Lunes is otherwise empty
C13_Witness ==
    /\ Placed
    /\ state.schedule = <<>>
    /\ \E e \in PlacedEntries :
          /\ ~Sentinel(e.teacherId)
          /\ \A t \in WithId(state.teachers, e.teacherId) :
                "Lunes" \notin DOMAIN t.availability
          /\ e.day # "Lunes"

\* the state the caller holds after the call: the input state with the
\* returned schedule
OutputState == [state EXCEPT !.schedule = result.schedule]

\* C14: every entry the placement engine places is valid against the rest of
\* the returned schedule: validateMove(output state, e, e.day, e.timeSlot)
\* returns no conflict.
C14_PlacedEntriesValid ==
    Placed =>
       \A e \in PlacedEntries :
          validateMove(OutputState, e, e.day, e.timeSlot) = <<>>

\* the same holds of every run in which the general group of the units is
\* declared in the StudentGroup collection
PlacedEntriesValidIfGroupDeclared ==
    (Placed /\ state.studentGroups # <<>>) =>
       \A e \in PlacedEntries :
          validateMove(OutputState, e, e.day, e.timeSlot) = <<>>

(***************************************************************************)
(* Properties of fixSchedule (SpecFix), continued                          *)
(***************************************************************************)
\* validateMove reports no conflict for an input entry at its own cell against
\* the other input entries
ValidInPlace(e) ==
    LET other(x) == x.id # e.id
    IN validateMove([state EXCEPT !.schedule = SelectSeq(state.schedule, other)],
                    e, e.day, e.timeSlot) = <<>>

\* the input entries fixSchedule is to keep, and those it is to place again
KeptByFix(e) == e.isPinned \/ ValidInPlace(e)

RemovedByFix(e) == ~KeptByFix(e)

FixBase == SelectSeq(state.schedule, KeptByFix)

FixRemoved == SelectSeq(state.schedule, RemovedByFix)

\* the entries of the returned schedule after the base
FixTail == SubSeq(result.schedule, Len(FixBase) + 1, Len(result.schedule))

\* C15: fixSchedule keeps an entry, untouched, exactly when it is pinned or
\* validateMove reports no conflict for it at its own cell against the other
\* input entries; every other entry is removed and run through the placement
\* engine against the kept ones, so two unpinned entries that collide with
\* each other are both removed and placed again.
C15_KeptIffPinnedOrValid ==
    Fixed =>
       IF FixRemoved = <<>>
       THEN result = [schedule |-> state.schedule, unscheduled |-> <<>>]
       ELSE /\ Len(result.schedule) >= Len(FixBase)
            /\ SubSeq(result.schedule, 1, Len(FixBase)) = FixBase
            /\ Len(FixTail) + Len(result.unscheduled) = Len(FixRemoved)
            /\ \A k \in 1 .. Len(FixRemoved) :
                  LET e == FixRemoved[k]
                      again == {n \in 1 .. Len(FixTail) : FixTail[n].id = e.id}
                      failed == {n \in 1 .. Len(result.unscheduled) :
                                   result.unscheduled[n].unit.originalId = e.id}
                  IN /\ Cardinality(again) + Cardinality(failed) = 1
                     /\ \A n \in again :
                           /\ ~FixTail[n].isPinned
                           /\ FixTail[n].courseId = e.courseId
                           /\ FixTail[n].studentGroupId = e.studentGroupId
                           /\ \A b \in 1 .. Len(FixBase) :
                                 (/\ FixBase[b].day = FixTail[n].day
                                  /\ FixBase[b].timeSlot = FixTail[n].timeSlot) =>
                                    FixBase[b].roomId # FixTail[n].roomId

\* two unpinned entries in the same room at the same cell: both are removed
\* and both are placed again, one of them elsewhere
C15_Witness ==
    /\ Fixed
    /\ Len(state.schedule) = 2
    /\ ~state.schedule[1].isPinned /\ ~state.schedule[2].isPinned
    /\ state.schedule[1].roomId = state.schedule[2].roomId
    /\ state.schedule[1].timeSlot = state.schedule[2].timeSlot
    /\ Len(FixRemoved) = 2
    /\ Len(FixTail) = 2
    /\ \E n \in 1 .. 2 : FixTail[n].id = state.schedule[2].id
                         /\ FixTail[n].timeSlot # state.schedule[2].timeSlot

(***************************************************************************)
(* Properties of the placement engine (SpecPlace), continued               *)
(***************************************************************************)
\* a step of the loop appends one unpinned entry and changes nothing else of
\* the schedule or the unscheduled list
AppendsEntry ==
    /\ Len(result'.schedule) = Len(result.schedule) + 1
    /\ SubSeq(result'.schedule, 1, Len(result.schedule)) = result.schedule
    /\ ~result'.schedule[Len(result'.schedule)].isPinned
    /\ result'.unscheduled = result.unscheduled

\* a step of the loop appends one unscheduled unit and changes neither the
\* schedule nor the matrices
AppendsUnscheduled ==
    /\ Len(result'.unscheduled) = Len(result.unscheduled) + 1
    /\ SubSeq(result'.unscheduled, 1, Len(result.unscheduled)) = result.unscheduled
    /\ result'.unscheduled[Len(result'.unscheduled)].unit = arg.units[arg.k]
    /\ result'.schedule = result.schedule
    /\ result'.matrices = result.matrices

\* C16: the placement loop never backtracks: each unit's step either appends
\* exactly one new unpinned entry to the schedule or appends exactly one
\* unscheduled unit; it never removes or changes a locked entry or an entry of
\* an earlier step, and a step that fails leaves schedule and matrices as
\* they were.
C16_NoBacktracking ==
    [][Placing => (AppendsEntry \/ AppendsUnscheduled)]_vars

\* a unit has been left unscheduled after an earlier unit was placed on top
\* of a locked entry's schedule: all three are still where they were
C16_Witness ==
    /\ Placed
    /\ Len(state.schedule) = 1
    /\ Len(result.schedule) = 2
    /\ result.schedule[1] = state.schedule[1]
    /\ Len(result.unscheduled) = 1
    /\ StepFailed
    /\ Before.schedule = result.schedule
    /\ Before.matrices = result.matrices

\* the rooms of the collection of a type that hold a unit's students
Suitable(type, unit) ==
    {r \in {state.rooms[k] : k \in 1 .. Len(state.rooms)} :
        /\ r.type = type
        /\ (unit.studentCount = 0 \/ r.capacity >= unit.studentCount)}

\* C17: a placed entry's room holds the unit's students (a studentCount of 0
\* needs no capacity) and has the unit's required type, or is an 'aula' when
\* the collection has no room of the required type that holds them; when it
\* has no such 'aula' either, the unit is returned unscheduled with the
\* capacity-shortage reason. A unit whose suitable rooms of the required type
\* are all occupied is not moved to an 'aula'.
C17_RoomFitsUnit ==
    Stepped =>
       /\ StepPlaced \/ StepFailed
       /\ StepPlaced =>
             /\ ~StepFailed
             /\ \E r \in Suitable(LastUnit.requiredRoomType, LastUnit)
                           \cup Suitable("aula", LastUnit) :
                   r.id = LastEntry.roomId
             /\ \A r \in WithId(state.rooms, LastEntry.roomId) :
                   r.type # LastUnit.requiredRoomType =>
                      Suitable(LastUnit.requiredRoomType, LastUnit) = {}
       /\ (/\ Suitable(LastUnit.requiredRoomType, LastUnit) = {}
           /\ Suitable("aula", LastUnit) = {}) =>
             StepFailed /\ LastUnscheduled.reason = "NoCapacity"
       /\ (StepFailed /\ LastUnscheduled.reason = "NoCapacity") =>
             /\ Suitable(LastUnit.requiredRoomType, LastUnit) = {}
             /\ Suitable("aula", LastUnit) = {}

\* two lab units and one laboratory, free at one cell only: the first unit
\* is in the laboratory, the second is unscheduled although an 'aula' that
\* holds it is free
C17_Witness ==
    /\ Placed
    /\ StepFailed
    /\ LastUnit.requiredRoomType = "laboratorio"
    /\ Suitable("laboratorio", LastUnit) # {}
    /\ LastUnscheduled.reason # "NoCapacity"
    /\ \E r \in Suitable("aula", LastUnit), c \in Cells :
          IsFree(result.matrices.rooms, r.id, c[1], c[2])
    /\ \E e \in PlacedEntries :
          \A r \in WithId(state.rooms, e.roomId) : r.type = "laboratorio"

\* the general group the engine finds for the unit of the last step
LastGroup == groupOfId(state.studentGroups, LastUnit.studentGroupId)

\* the cells <<room position, day index, slot>> that were feasible for the unit
\* of the last step when the step began
FeasibleCells ==
    LET rooms == CompatibleRooms(LastUnit)
        unit == LastUnit
        gsg == LastGroup
        matrices == Before.matrices
    IN {c \in (1 .. Len(rooms)) \X DayIdx \X SlotIdx :
           feasibleCell(matrices, unit, gsg, rooms[c[1]].id, c[2], c[3])}

ScoreOf(c) == cellScore(Before.matrices, options, LastUnit, LastGroup, c[2], c[3])

\* c comes before d in iteration order: rooms, then days, then slots
Earlier(c, d) ==
    \/ c[1] < d[1]
    \/ c[1] = d[1] /\ c[2] < d[2]
    \/ c[1] = d[1] /\ c[2] = d[2] /\ c[3] < d[3]

\* the cell of the entry of the last step
ChosenCells ==
    LET rooms == CompatibleRooms(LastUnit)
    IN {c \in FeasibleCells :
        /\ rooms[c[1]].id = LastEntry.roomId
        /\ DAYS_OF_WEEK[c[2]] = LastEntry.day
        /\ c[3] = LastEntry.timeSlot}

\* C18: the cell chosen for a unit has the maximum score among the feasible
\* (room, day, timeSlot) cells and is the first of the maximum-score cells in
\* iteration order: compatible rooms in input order, then days, then slots.
\* With both compaction options off it is the first feasible cell.
C18_BestCellFirstInOrder ==
    LET feasible == FeasibleCells
    IN /\ StepPlaced =>
             LET chosen == ChosenCells
                 best == CHOOSE c \in chosen : TRUE
                 bestScore == ScoreOf(best)
             IN /\ Cardinality(chosen) = 1
                /\ \A d \in feasible \ {best} :
                      LET score == ScoreOf(d)
                      IN /\ score <= bestScore
                         /\ score = bestScore => Earlier(best, d)
                         /\ (~options.compactTeachers /\ ~options.compactStudents) =>
                               Earlier(best, d)
       /\ (Stepped /\ CompatibleRooms(LastUnit) # <<>>) =>
             (StepPlaced <=> feasible # {})

\* compaction has sent a unit to a cell that is not the first feasible one,
\* and several cells share the best score
C18_Witness ==
    /\ StepPlaced
    /\ \E c \in ChosenCells :
          /\ \E d \in FeasibleCells : Earlier(d, c) /\ ScoreOf(d) < ScoreOf(c)
          /\ \E d \in FeasibleCells : Earlier(c, d) /\ ScoreOf(d) = ScoreOf(c)

\* the slots next to a slot on the same day
Neighbours(j) == {n \in SlotIdx : n = j - 1 \/ n = j + 1}

\* when the last step began, an entry of the unit's teacher, or of its general
\* group, was at the cell
TeacherHasClass(i, j) ==
    \E n \in 1 .. Len(Before.schedule) :
        /\ Before.schedule[n].teacherId = LastUnit.teacherId
        /\ dayMap(Before.schedule[n].day) = i
        /\ Before.schedule[n].timeSlot = j

GroupHasClass(i, j) ==
    \E n \in 1 .. Len(Before.schedule) :
        /\ generalGroupId(Before.schedule[n].studentGroupId) = LastGroup[1].id
        /\ dayMap(Before.schedule[n].day) = i
        /\ Before.schedule[n].timeSlot = j

\* the teacher, or the general group, declares the cell unavailable
TeacherUnavailable(i, j) ==
    \A t \in WithId(state.teachers, LastUnit.teacherId) :
        ~DeclaredFree(t.availability, DAYS_OF_WEEK[i], j)

GroupUnavailable(i, j) == ~DeclaredFree(LastGroup[1].availability, DAYS_OF_WEEK[i], j)

TeacherCompacted == options.compactTeachers /\ ~Sentinel(LastUnit.teacherId)

GroupCompacted == options.compactStudents /\ LastGroup # <<>>

Ten(b) == IF b THEN 10 ELSE 0

\* C19 as stated: the score of a feasible cell is +10 if teacher compaction is
\* on and a class of the teacher is in the slot before or after, +10 likewise
\* for the general group, so it is at most 20, and a slot that is only declared
\* unavailable adds nothing.
C19_ScoreAtMostTwenty ==
    Stepped =>
       \A c \in FeasibleCells :
          /\ ScoreOf(c) =
                Ten(TeacherCompacted /\ \E n \in Neighbours(c[3]) : TeacherHasClass(c[2], n))
              + Ten(GroupCompacted /\ \E n \in Neighbours(c[3]) : GroupHasClass(c[2], n))
          /\ ScoreOf(c) <= 20

\* C19 (amended): the score of a feasible cell is +10 for each of the slot
\* before and the slot after at which the teacher is not free, that is has a
\* class or is declared unavailable, when teacher compaction is on and the
\* teacher is no sentinel, plus +10 for each such slot of the declared general
\* group when group compaction is on; it is at most 40.
C19_ScorePerAdjacentSlot ==
    Stepped =>
       \A c \in FeasibleCells :
          LET score == ScoreOf(c)
          IN /\ score =
                   (IF TeacherCompacted
                    THEN 10 * Cardinality({n \in Neighbours(c[3]) :
                            TeacherHasClass(c[2], n) \/ TeacherUnavailable(c[2], n)})
                    ELSE 0)
                 + (IF GroupCompacted
                    THEN 10 * Cardinality({n \in Neighbours(c[3]) :
                            GroupHasClass(c[2], n) \/ GroupUnavailable(c[2], n)})
                    ELSE 0)
             /\ score <= 40

\* a unit has been placed at a cell that scored more than 20, next to a slot
\* its teacher only declares unavailable
C19_Witness ==
    /\ StepPlaced
    /\ \E c \in ChosenCells :
          /\ ScoreOf(c) > 20
          /\ \E n \in Neighbours(c[3]) :
                TeacherUnavailable(c[2], n) /\ ~TeacherHasClass(c[2], n)

\* the class of a unit in the order of attempts: lab, practice, the rest
Rank(u) == IF u.sessionType = "lab" THEN 0 ELSE IF u.sessionType = "practice" THEN 1 ELSE 2

\* s is input reordered by class, the input order kept within each class
IsStableOrder(s, input) ==
    /\ Len(s) = Len(input)
    /\ \E p \in [1 .. Len(s) -> 1 .. Len(s)] :
          /\ \A a, b \in 1 .. Len(s) : a # b => p[a] # p[b]
          /\ \A a \in 1 .. Len(s) : s[a] = input[p[a]]
          /\ \A a, b \in 1 .. Len(s) :
                a < b => \/ Rank(s[a]) < Rank(s[b])
                         \/ Rank(s[a]) = Rank(s[b]) /\ p[a] < p[b]

\* the units the loop has gone through: the unit of each placed entry and of
\* each unscheduled unit, by session type and teacher
Attempted ==
    [sessionType : {"lab", "practice", "theory"}, teacherId : {T1, TBD1}]

CountDone(x) ==
    Cardinality({n \in Len(state.schedule) + 1 .. Len(result.schedule) :
                    /\ result.schedule[n].sessionType = x.sessionType
                    /\ result.schedule[n].teacherId = x.teacherId})
  + Cardinality({n \in 1 .. Len(result.unscheduled) :
                    /\ result.unscheduled[n].unit.sessionType = x.sessionType
                    /\ result.unscheduled[n].unit.teacherId = x.teacherId})

CountFirst(x) ==
    Cardinality({n \in 1 .. arg.k - 1 :
                    /\ arg.units[n].sessionType = x.sessionType
                    /\ arg.units[n].teacherId = x.teacherId})

\* the case of C20: a lab unit and a theory unit, in either input order, of
\* one non-sentinel teacher who has one free cell, where each has a room free
LabAndTheoryCompete ==
    /\ TwoUnitsOneFreeCell
    /\ {arg.input[1].sessionType, arg.input[2].sessionType} = {"lab", "theory"}
    /\ \A c \in FreeCellsOf(arg.input[1].teacherId) :
          RoomAndGroupFreeAt(arg.input[1], c) /\ RoomAndGroupFreeAt(arg.input[2], c)

\* C20: the placement engine attempts all lab units, then all practice units,
\* then the theory and seminar units, in input order within each class; a lab
\* unit and a theory unit that compete for the one cell feasible for both
\* leave the cell to the lab unit, whatever their input order.
C20_LabsFirst ==
    Placing =>
       /\ IsStableOrder(arg.units, arg.input)
       /\ \A x \in Attempted : CountDone(x) = CountFirst(x)
       /\ (Placed /\ LabAndTheoryCompete) =>
             /\ \A e \in PlacedEntries : e.sessionType = "lab"
             /\ Cardinality(PlacedEntries) = 1
             /\ Len(result.unscheduled) = 1
             /\ \A n \in 1 .. Len(result.unscheduled) :
                   result.unscheduled[n].unit.sessionType = "theory"

\* a theory unit handed in before a lab unit of the same teacher, who has one
\* free cell: the lab unit is placed and the theory unit is unscheduled
C20_Witness ==
    /\ Placed
    /\ LabAndTheoryCompete
    /\ arg.input[1].sessionType = "theory"
    /\ \E e \in PlacedEntries : e.sessionType = "lab"
    /\ Len(result.unscheduled) = 1
    /\ result.unscheduled[1].unit.sessionType = "theory"

(***************************************************************************)
(* SpecExpand: generateSchedule on plans with lab subgroups, with the      *)
(* locked set and the class units it computes on the way kept in arg       *)
(***************************************************************************)
\* what a pinned entry of these inputs may be: a theory hour in R1 or a lab
\* hour in L1 of subgroup 1, at slot 0 or 1 of Lunes
ExpandPinnedChoices ==
    {[sessionType |-> t, timeSlot |-> j] : t \in {"theory", "lab"}, j \in {0, 1}}

expandPinnedOf(choices) ==
    [k \in 1 .. Len(choices) |->
        ScheduleEntry(<<"e", k>>, IS01, T1,
                      IF choices[k].sessionType = "lab" THEN "L1" ELSE "R1",
                      studentGroupIdOf(IS01, GroupA, 1),
                      "Lunes", choices[k].timeSlot, choices[k].sessionType, TRUE)]

\* the lab subgroups of the plan's group: none, one, two
LabChoices ==
    {<<>>,
     <<SubgroupAssignment(T1, "L1", <<>>)>>,
     <<SubgroupAssignment(T1, "L1", <<>>), SubgroupAssignment(Null, "L1", <<>>)>>}

ExpandInit ==
    /\ \E h \in 0 .. MaxHours,
          l \in 0 .. 1,
          listed \in BOOLEAN,
          active \in BOOLEAN,
          labs \in LabChoices,
          ar \in {"", "R1"},
          ms \in {<<>>,
                  <<[day |-> "Lunes", timeSlot |-> 0, roomId |-> ""]>>,
                  <<[day |-> "Lunes", timeSlot |-> 0, roomId |-> "R2"]>>},
          pins \in SeqsUpTo(ExpandPinnedChoices, MaxPinned) :
         state = [courses |-> IF listed THEN <<Course(IS01, h, l)>>
                              ELSE <<Course(IS02, h, l)>>,
                  teachers |-> <<Teacher(T1, FullAvailability)>>,
                  rooms |-> <<Room("R1", "aula", 30, FullAvailability),
                              Room("R2", "aula", 30, FullAvailability),
                              Room("L1", "laboratorio", 30, FullAvailability)>>,
                  studentGroups |-> <<Group1A>>,
                  semesterPlan |->
                     <<[courseId |-> IS01, isActive |-> active,
                        groups |-> <<[group |-> GroupA,
                                      theory |-> <<SubgroupAssignment(T1, ar, ms)>>,
                                      practice |-> <<>>, lab |-> labs,
                                      seminar |-> <<>>]>>]>>,
                  schedule |-> expandPinnedOf(pins)]
    /\ options = NoOptions
    /\ op = "input"
    /\ arg = <<>>
    /\ result = NoResult

\* generateSchedule(...); arg keeps its initialSchedule and classUnitsToSchedule
Expand ==
    /\ op = "input"
    /\ op' = "generateSchedule"
    /\ arg' = [initialSchedule |-> lockedEntries(state.semesterPlan, state.schedule),
               classUnitsToSchedule |->
                  classUnitsToSchedule(state.courses, state.studentGroups,
                      state.semesterPlan,
                      lockedEntries(state.semesterPlan, state.schedule))]
    /\ result' = generateSchedule(state.courses, state.teachers, state.rooms,
                                  state.studentGroups, state.semesterPlan,
                                  state.schedule, options)
    /\ UNCHANGED <<state, options>>

ExpandNext == Expand

SpecExpand == ExpandInit /\ [][ExpandNext]_vars

(***************************************************************************)
(* Properties of the class-unit expander and the locked set (SpecExpand)   *)
(***************************************************************************)
Expanded == op = "generateSchedule" /\ arg # <<>>

\* the assignments <<plan position, group position, session type, subgroup>>
\* of the plan
PlanAssignments ==
    {a \in (1 .. Len(state.semesterPlan)) \X (1 .. 1) \X (1 .. Len(SESSION_TYPES)) \X (1 .. 2) :
        /\ a[2] <= Len(state.semesterPlan[a[1]].groups)
        /\ a[4] <= Len(state.semesterPlan[a[1]].groups[a[2]][SESSION_TYPES[a[3]]])}

AssignmentGroupId(a) ==
    studentGroupIdOf(state.semesterPlan[a[1]].courseId,
                     state.semesterPlan[a[1]].groups[a[2]].group, a[4])

\* the plan course of an assignment is active and in the course list
Expandable(a) ==
    /\ state.semesterPlan[a[1]].isActive
    /\ \E c \in 1 .. Len(state.courses) :
          state.courses[c].id = state.semesterPlan[a[1]].courseId

UnitsOf(a) ==
    {n \in 1 .. Len(arg.classUnitsToSchedule) :
        /\ arg.classUnitsToSchedule[n].studentGroupId = AssignmentGroupId(a)
        /\ arg.classUnitsToSchedule[n].sessionType = SESSION_TYPES[a[3]]}

LockedOf(a) ==
    {n \in 1 .. Len(arg.initialSchedule) :
        /\ arg.initialSchedule[n].studentGroupId = AssignmentGroupId(a)
        /\ arg.initialSchedule[n].sessionType = SESSION_TYPES[a[3]]}

RequiredOf(a) ==
    LET course == CHOOSE c \in 1 .. Len(state.courses) :
                     state.courses[c].id = state.semesterPlan[a[1]].courseId
        type == SESSION_TYPES[a[3]]
    IN IF type = "theory" THEN state.courses[course].theoryHours
       ELSE IF type = "lab" THEN state.courses[course].labHours
       ELSE 0

PinnedIds == {state.schedule[k].id : k \in 1 .. Len(state.schedule)}

\* C21: generateSchedule emits, for every subgroup assignment of every active
\* plan course found in the course list, max(0, requiredHours - L) units, L
\* being the number of locked entries with the assignment's (studentGroupId,
\* sessionType), and no other unit; an inactive plan entry yields no unit and
\* no locked entry from its manual slots; a unit requires a 'laboratorio' for
\* a lab session and an 'aula' otherwise.
C21_UnitsPerAssignment ==
    Expanded =>
       /\ \A a \in PlanAssignments :
             IF Expandable(a)
             THEN Cardinality(UnitsOf(a))
                     = (IF RequiredOf(a) > Cardinality(LockedOf(a))
                        THEN RequiredOf(a) - Cardinality(LockedOf(a)) ELSE 0)
             ELSE UnitsOf(a) = {}
       /\ \A n \in 1 .. Len(arg.classUnitsToSchedule) :
             /\ \E a \in PlanAssignments : Expandable(a) /\ n \in UnitsOf(a)
             /\ arg.classUnitsToSchedule[n].requiredRoomType
                   = (IF arg.classUnitsToSchedule[n].sessionType = "lab"
                      THEN "laboratorio" ELSE "aula")
       /\ (\A c \in 1 .. Len(state.semesterPlan) : ~state.semesterPlan[c].isActive) =>
             /\ arg.classUnitsToSchedule = <<>>
             /\ \A n \in 1 .. Len(arg.initialSchedule) :
                   arg.initialSchedule[n].id \in PinnedIds
       /\ Len(result.schedule) + Len(result.unscheduled)
             = Len(arg.initialSchedule) + Len(arg.classUnitsToSchedule)

\* an active listed course with two lab subgroups: a locked theory hour leaves
\* one theory unit of two to emit, a locked lab hour of subgroup 1 leaves none
\* for it and one for subgroup 2
C21_Witness ==
    /\ Expanded
    /\ state.semesterPlan[1].isActive
    /\ state.courses[1].id = IS01
    /\ state.courses[1].theoryHours = 2
    /\ state.courses[1].labHours = 1
    /\ Len(state.semesterPlan[1].groups[1].lab) = 2
    /\ Cardinality(LockedOf(<<1, 1, 1, 1>>)) = 1
    /\ Cardinality(UnitsOf(<<1, 1, 1, 1>>)) = 1
    /\ Cardinality(LockedOf(<<1, 1, 3, 1>>)) = 1
    /\ UnitsOf(<<1, 1, 3, 1>>) = {}
    /\ Cardinality(UnitsOf(<<1, 1, 3, 2>>)) = 1
    /\ \E n \in UnitsOf(<<1, 1, 3, 2>>) :
          arg.classUnitsToSchedule[n].requiredRoomType = "laboratorio"

\* the (day, timeSlot, roomId) of an entry or of a manual slot with its room
CellOf(e) == <<e.day, e.timeSlot, e.roomId>>

\* the manual slots of the active plan entries that have a room, as
\* <<plan position, group position, session type, subgroup, slot position>>
ManualSlots ==
    {a \in PlanAssignments \X (1 .. 1) :
        LET assignment == state.semesterPlan[a[1][1]].groups[a[1][2]][SESSION_TYPES[a[1][3]]][a[1][4]]
        IN /\ state.semesterPlan[a[1][1]].isActive
           /\ a[2] <= Len(assignment.manualSlots)
           /\ (assignment.manualSlots[a[2]].roomId # "" \/ assignment.roomId # "")}

\* what a manual slot asks to lock: cell, subgroup, session type and teacher
ManualSlotEntry(a) ==
    LET assignment == state.semesterPlan[a[1][1]].groups[a[1][2]][SESSION_TYPES[a[1][3]]][a[1][4]]
        slot == assignment.manualSlots[a[2]]
    IN [courseId |-> state.semesterPlan[a[1][1]].courseId,
        teacherId |-> assignment.teacherId,
        roomId |-> IF slot.roomId # "" THEN slot.roomId ELSE assignment.roomId,
        studentGroupId |-> AssignmentGroupId(a[1]),
        day |-> slot.day,
        timeSlot |-> slot.timeSlot,
        sessionType |-> SESSION_TYPES[a[1][3]],
        isPinned |-> TRUE]

\* entry n of the locked set but for its id
LockedFields(n) ==
    [f \in DOMAIN arg.initialSchedule[n] \ {"id"} |-> arg.initialSchedule[n][f]]

\* pinned entry k of the input is the first pinned entry with its cell
FirstPinAtCell(k) ==
    \A h \in 1 .. (k - 1) : CellOf(state.schedule[h]) # CellOf(state.schedule[k])

\* C22: the locked set of generateSchedule is the pinned entries followed by
\* the manual slots of the active plan entries that have a room (their own or
\* the assignment's), with only the first entry seen kept for each (day,
\* timeSlot, roomId): a pinned entry wins over a manual slot at its cell and
\* keeps its id, and every locked entry is in the output with isPinned = TRUE.
C22_LockedSetFirstSeen ==
    Expanded =>
       LET locked == arg.initialSchedule
           fromPin(n) == locked[n].id \in PinnedIds
       IN /\ \A n, m \in 1 .. Len(locked) : n # m => CellOf(locked[n]) # CellOf(locked[m])
          /\ \A n, m \in 1 .. Len(locked) : (fromPin(n) /\ ~fromPin(m)) => n < m
          /\ \A k \in 1 .. Len(state.schedule) :
                LET hits == {n \in 1 .. Len(locked) : locked[n].id = state.schedule[k].id}
                IN IF FirstPinAtCell(k)
                   THEN /\ Cardinality(hits) = 1
                        /\ \A n \in hits : locked[n] = [state.schedule[k] EXCEPT !.isPinned = TRUE]
                        /\ \A n \in hits, h \in 1 .. (k - 1) :
                              FirstPinAtCell(h) =>
                                 \E m \in 1 .. (n - 1) : locked[m].id = state.schedule[h].id
                   ELSE hits = {}
          /\ \A a \in ManualSlots :
                \E n \in 1 .. Len(locked) :
                   /\ CellOf(locked[n]) = CellOf(ManualSlotEntry(a))
                   /\ IF \E k \in 1 .. Len(state.schedule) :
                            CellOf(state.schedule[k]) = CellOf(ManualSlotEntry(a))
                      THEN fromPin(n)
                      ELSE ~fromPin(n) /\ LockedFields(n) = ManualSlotEntry(a)
          /\ \A n \in 1 .. Len(locked) :
                ~fromPin(n) =>
                   \E a \in ManualSlots : LockedFields(n) = ManualSlotEntry(a)
          /\ Len(result.schedule) >= Len(locked)
          /\ \A n \in 1 .. Len(locked) :
                result.schedule[n] = locked[n] /\ result.schedule[n].isPinned

\* a pinned theory entry and a manual slot that takes the assignment's room ask
\* for the same cell, a second pinned entry repeats the first one's cell: the
\* first pinned entry is the one locked there
C22_Witness ==
    /\ Expanded
    /\ Len(state.schedule) = 2
    /\ ~FirstPinAtCell(2)
    /\ \E a \in ManualSlots :
          /\ state.semesterPlan[1].groups[1].theory[1].manualSlots[1].roomId = ""
          /\ CellOf(ManualSlotEntry(a)) = CellOf(state.schedule[1])
    /\ Len(arg.initialSchedule) = 1
    /\ arg.initialSchedule[1].id = state.schedule[1].id

\* a manual slot with a room of its own is locked beside a pinned entry
C22_WitnessOverride ==
    /\ Expanded
    /\ \E a \in ManualSlots :
          /\ ManualSlotEntry(a).roomId = "R2"
          /\ \E n \in 1 .. Len(arg.initialSchedule) :
                /\ arg.initialSchedule[n].id \notin PinnedIds
                /\ LockedFields(n) = ManualSlotEntry(a)
    /\ \E n \in 1 .. Len(arg.initialSchedule) : arg.initialSchedule[n].id \in PinnedIds

(***************************************************************************)
(* The reason of an unscheduled unit (SpecPlace)                           *)
(***************************************************************************)
\* the general group of the unit of the last step is in the StudentGroup
\* collection: a group of the year of the unit's course and of its letter
LastGroupDefined ==
    \E g \in 1 .. Len(state.studentGroups) :
        /\ <<state.studentGroups[g].year>> = getCourseYear(LastUnit.courseId)
        /\ state.studentGroups[g].group = Part(Split(LastUnit.studentGroupId), 1)

\* C23: a unit that has compatible rooms and no feasible cell gets exactly one
\* UnscheduledUnit, whose reason is: the general group is not defined; else,
\* for a sentinel teacher, the room/group availability reason; else the
\* generic 'no common free slot' reason. A unit with a feasible cell gets none.
C23_ReasonPrecedence ==
    (Stepped /\ CompatibleRooms(LastUnit) # <<>>) =>
       IF FeasibleCells = {}
       THEN /\ result.unscheduled
                 = Append(Before.unscheduled,
                          [unit |-> LastUnit,
                           reason |-> IF ~LastGroupDefined THEN "GroupUndefined"
                                      ELSE IF Sentinel(LastUnit.teacherId)
                                      THEN "RoomGroupAvailability"
                                      ELSE "NoCommonSlot"])
            /\ result.schedule = Before.schedule
       ELSE result.unscheduled = Before.unscheduled

\* a unit with compatible rooms, a sentinel teacher and no defined general
\* group has found no cell: the reason given is the one about the group
C23_Witness ==
    /\ StepFailed
    /\ CompatibleRooms(LastUnit) # <<>>
    /\ Sentinel(LastUnit.teacherId)
    /\ ~LastGroupDefined
    /\ LastUnscheduled.reason = "GroupUndefined"

(***************************************************************************)
(* SpecAvail: validateMove, fixSchedule and generateSchedule on states     *)
(* whose availabilities leave days and slots undeclared                    *)
(***************************************************************************)
\* Lunes declares slot 0 only
LunesShort == [d \in Days |-> IF d = "Lunes" THEN [j \in {0} |-> TRUE] ELSE [j \in SlotIdx |-> TRUE]]

AvailChoices == {FullAvailability, NoLunes, LunesShort, AllButFirstCell}

AvailInit ==
    /\ \E ta \in AvailChoices, ra \in AvailChoices,
          gs \in {<<>>} \cup {<<StudentGroup(<<"1", "-", "A">>, 1, GroupA, 20, ga)>> :
                                 ga \in AvailChoices},
          tch \in {T1, T2, Null},
          r \in {"R1", "R9"},
          j \in {0, 1},
          p \in BOOLEAN :
         state = [courses |-> <<Course(IS01, 1, 0)>>,
                  teachers |-> <<Teacher(T1, ta)>>,
                  rooms |-> <<Room("R1", "aula", 30, ra)>>,
                  studentGroups |-> gs,
                  semesterPlan |->
                     <<[courseId |-> IS01, isActive |-> TRUE,
                        groups |-> <<[group |-> GroupA,
                                      theory |-> <<SubgroupAssignment(tch, "", <<>>)>>,
                                      practice |-> <<>>, lab |-> <<>>,
                                      seminar |-> <<>>]>>]>>,
                  schedule |-> <<ScheduleEntry(<<"e", 1>>, IS01, tch, r,
                                     studentGroupIdOf(IS01, GroupA, 1),
                                     "Lunes", j, "theory", p)>>]
    /\ options = NoOptions
    /\ op = "input"
    /\ arg = <<>>
    /\ result = NoResult

\* schedule.filter(e => e.isPinned)
pinnedOnly(schedule) ==
    LET pinned(e) == e.isPinned IN SelectSeq(schedule, pinned)

\* the call of runScheduler: generateSchedule(..., schedule.filter(e => e.isPinned), options)
GenerateFromPinned ==
    /\ op = "input"
    /\ op' = "generateSchedule"
    /\ result' = generateSchedule(state.courses, state.teachers, state.rooms,
                                  state.studentGroups, state.semesterPlan,
                                  pinnedOnly(state.schedule), options)
    /\ UNCHANGED <<state, options, arg>>

AvailNext == ValidateMove \/ Fix \/ GenerateFromPinned

SpecAvail == AvailInit /\ [][AvailNext]_vars

(***************************************************************************)
(* Availability in validateMove (SpecAvail)                                *)
(***************************************************************************)
\* an availability says false for the cell
ExplicitlyFalse(availability, day, timeSlot) ==
    /\ day \in DOMAIN availability
    /\ timeSlot \in DOMAIN availability[day]
    /\ availability[day][timeSlot] = FALSE

\* the cell is not declared at all
Undeclared(availability, day, timeSlot) ==
    ~(day \in DOMAIN availability /\ timeSlot \in DOMAIN availability[day])

\* the number of conflicts of a type in the result of validateMove
Occurrences(type) == Cardinality({n \in 1 .. Len(result) : result[n] = type})

\* the only entry of the schedule of SpecAvail and the entities it names
TheEntry == state.schedule[1]

EntryTeachers == WithId(state.teachers, TheEntry.teacherId)

EntryRooms == WithId(state.rooms, TheEntry.roomId)

EntryGroups ==
    {state.studentGroups[g] : g \in {g \in 1 .. Len(state.studentGroups) :
        /\ <<state.studentGroups[g].year>> = getCourseYear(TheEntry.courseId)
        /\ state.studentGroups[g].group = GroupA}}

\* no entity of the entry says false for the cell
NothingFalseAt(day, timeSlot) ==
    \A x \in EntryTeachers \cup EntryRooms \cup EntryGroups :
        ~ExplicitlyFalse(x.availability, day, timeSlot)

\* some entity of the entry leaves the cell undeclared
SomethingUndeclaredAt(day, timeSlot) ==
    \E x \in EntryTeachers \cup EntryRooms \cup EntryGroups :
        Undeclared(x.availability, day, timeSlot)

\* C24: validateMove emits the availability conflict of the teacher, the room
\* or the general group of the moved entry exactly when that entity is in the
\* state and its availability says false for the proposed cell; an undeclared
\* day or slot counts as available. The generator never places a class on an
\* undeclared cell, yet fixSchedule leaves an entry that sits on one in place.
C24_ConflictIffExplicitlyFalse ==
    /\ Validated =>
          /\ Occurrences("teacherAvailability")
                = (IF \E t \in EntryTeachers : ExplicitlyFalse(t.availability, arg.day, arg.timeSlot)
                   THEN 1 ELSE 0)
          /\ Occurrences("roomAvailability")
                = (IF \E r \in EntryRooms : ExplicitlyFalse(r.availability, arg.day, arg.timeSlot)
                   THEN 1 ELSE 0)
          /\ Occurrences("studentGroupAvailability")
                = (IF \E g \in EntryGroups : ExplicitlyFalse(g.availability, arg.day, arg.timeSlot)
                   THEN 1 ELSE 0)
    /\ (Fixed /\ NothingFalseAt(TheEntry.day, TheEntry.timeSlot)) =>
          result = [schedule |-> state.schedule, unscheduled |-> <<>>]
    /\ Generated =>
          \A n \in 1 .. Len(result.schedule) :
             ~result.schedule[n].isPinned =>
                LET e == result.schedule[n]
                IN \A x \in WithId(state.rooms, e.roomId)
                            \cup (IF Sentinel(e.teacherId) THEN {}
                                  ELSE WithId(state.teachers, e.teacherId))
                            \cup EntryGroups :
                      DeclaredFree(x.availability, e.day, e.timeSlot)

\* an unpinned entry sits on Lunes, a day its teacher does not declare:
\* validateMove has no conflict for it there and fixSchedule has left it there
C24_Witness ==
    /\ Fixed
    /\ ~TheEntry.isPinned
    /\ \E t \in EntryTeachers : "Lunes" \notin DOMAIN t.availability
    /\ EntryRooms # {}
    /\ ~IsFree(createAvailabilityMatrices(state.teachers, state.rooms,
                   state.studentGroups, <<>>, Null).teachers,
               TheEntry.teacherId, dayMap(TheEntry.day), TheEntry.timeSlot)
    /\ validateMove(state, TheEntry, TheEntry.day, TheEntry.timeSlot) = <<>>
    /\ result.schedule = state.schedule

(***************************************************************************)
(* The group collision of validateMove (SpecVal)                           *)
(***************************************************************************)
\* the (studyYear, groupLetter) an entry resolves to, Null when the year of
\* its course code does not parse
ResolvedGroup(e) ==
    LET parts == Split(e.studentGroupId)
        year == getCourseYear(Part(parts, 0))
    IN IF year = <<>> THEN Null ELSE <<year[1], Part(parts, 1)>>

\* the other entries at the proposed cell
OthersAtCell ==
    {n \in 1 .. Len(state.schedule) :
        /\ state.schedule[n].id # arg.entry.id
        /\ state.schedule[n].day = arg.day
        /\ state.schedule[n].timeSlot = arg.timeSlot}

\* C25: validateMove emits one 'studentGroup' conflict for each other entry at
\* the proposed cell that resolves to the (studyYear, groupLetter) of the moved
\* entry, whatever its course or subgroup, and no other; the moved entry is
\* not checked against itself.
C25_GroupConflictPerCollidingEntry ==
    Validated =>
       Occurrences("studentGroup")
          = Cardinality({n \in OthersAtCell :
               /\ ResolvedGroup(state.schedule[n]) # Null
               /\ ResolvedGroup(state.schedule[n]) = ResolvedGroup(arg.entry)})

\* what validateMove does: entries whose years do not parse count as one group
\* when their letters agree
GroupConflictPerEntryOfEqualYear ==
    Validated =>
       Occurrences("studentGroup")
          = Cardinality({n \in OthersAtCell :
               \/ /\ ResolvedGroup(state.schedule[n]) # Null
                  /\ ResolvedGroup(state.schedule[n]) = ResolvedGroup(arg.entry)
               \/ /\ ResolvedGroup(state.schedule[n]) = Null
                  /\ ResolvedGroup(arg.entry) = Null
                  /\ Part(Split(state.schedule[n].studentGroupId), 1)
                        = Part(Split(arg.entry.studentGroupId), 1)})

(***************************************************************************)
(* findAllConflicts against validateMove (SpecVal)                         *)
(***************************************************************************)
\* validateMove of entry k of the schedule at its own cell
InPlace(k) ==
    validateMove(state, state.schedule[k], state.schedule[k].day, state.schedule[k].timeSlot)

\* findAllConflicts has an availability conflict of the type for entry k
ScanReports(type, k) ==
    \E c \in 1 .. Len(result) :
        result[c].type = type /\ result[c].entryIds = <<state.schedule[k].id>>

AvailabilityTypes == {"teacherAvailability", "roomAvailability", "studentGroupAvailability"}

\* two entries at one cell whose years do not parse and whose letters agree
UnparsedPair ==
    \E k, h \in 1 .. Len(state.schedule) :
        /\ k # h
        /\ state.schedule[k].day = state.schedule[h].day
        /\ state.schedule[k].timeSlot = state.schedule[h].timeSlot
        /\ NoYear(state.schedule[k].studentGroupId)
        /\ NoYear(state.schedule[h].studentGroupId)
        /\ Part(Split(state.schedule[k].studentGroupId), 1)
              = Part(Split(state.schedule[h].studentGroupId), 1)

\* C26: findAllConflicts(state) is empty if and only if validateMove of every
\* entry at its own cell is empty, and it reports an availability conflict of
\* a type for an entry exactly when validateMove of the entry at its own cell
\* has a conflict of that type.
C26_ScanAgreesWithValidateMove ==
    Scanned =>
       /\ (result = <<>>) <=> (\A k \in 1 .. Len(state.schedule) : InPlace(k) = <<>>)
       /\ \A k \in 1 .. Len(state.schedule), type \in AvailabilityTypes :
             ScanReports(type, k) <=> Has(InPlace(k), type)

\* the two agree on every schedule without such a pair of unparsable years
ScanAgreesButForUnparsedYears ==
    (Scanned /\ ~UnparsedPair) =>
       /\ (result = <<>>) <=> (\A k \in 1 .. Len(state.schedule) : InPlace(k) = <<>>)
       /\ \A k \in 1 .. Len(state.schedule), type \in AvailabilityTypes :
             ScanReports(type, k) <=> Has(InPlace(k), type)

\* the availability conflicts alone agree on every schedule
ScanAvailabilityAgrees ==
    Scanned =>
       \A k \in 1 .. Len(state.schedule), type \in AvailabilityTypes :
          ScanReports(type, k) <=> Has(InPlace(k), type)

(***************************************************************************)
(* The handlers of the application: drag-move, pin/unpin, Generate         *)
(***************************************************************************)
\* faulty variant of handleMoveEntry: the move is made whatever validateMove says
handleMoveEntry_NoCheck(appState, entryId, newDay, newTimeSlot) ==
    [appState EXCEPT !.schedule =
        [k \in 1 .. Len(appState.schedule) |->
            IF appState.schedule[k].id = entryId
            THEN [appState.schedule[k] EXCEPT !.day = newDay, !.timeSlot = newTimeSlot]
            ELSE appState.schedule[k]]]

\* handleMoveEntry(entryId, newDay, newTimeSlot): the state it leaves
handleMoveEntry(appState, entryId, newDay, newTimeSlot) ==
    LET entry == findById(appState.schedule, entryId)
    IN IF entry = <<>> THEN appState
       ELSE IF Len(validateMove(appState, entry[1], newDay, newTimeSlot)) > 0 THEN appState
       ELSE [appState EXCEPT !.schedule =
               [k \in 1 .. Len(appState.schedule) |->
                   IF appState.schedule[k].id = entryId
                   THEN [appState.schedule[k] EXCEPT !.day = newDay, !.timeSlot = newTimeSlot]
                   ELSE appState.schedule[k]]]

\* a drag of an entry of the schedule to a cell of the timetable; result is
\* what validateMove returned (the notification shown when it is not empty)
MoveEntry ==
    /\ state.schedule # <<>>
    /\ \E k \in 1 .. Len(state.schedule), day \in Days, timeSlot \in SlotIdx :
          /\ arg' = [entryId |-> state.schedule[k].id, day |-> day, timeSlot |-> timeSlot]
          /\ result' = validateMove(state, state.schedule[k], day, timeSlot)
          /\ state' = handleMoveEntry(state, state.schedule[k].id, day, timeSlot)
    /\ op' = "handleMoveEntry"
    /\ UNCHANGED options

(***************************************************************************)
(* SpecMove: drag-moves on a schedule of two entries                       *)
(***************************************************************************)
\* the second entry: its course, teacher and room
MoveChoices ==
    {[courseId |-> c, teacherId |-> t, roomId |-> r, timeSlot |-> 1, isPinned |-> FALSE] :
        c \in {IS01, IS02, ISXX}, t \in {T1, T2, TBD1}, r \in {"R1", "R2"}}

MoveInit ==
    /\ \E second \in MoveChoices :
         state = [courses |-> <<Course(IS01, 1, 0), Course(IS02, 1, 0), Course(ISXX, 1, 0)>>,
                  teachers |-> <<Teacher(T1, FullAvailability), Teacher(T2, FullAvailability)>>,
                  rooms |-> <<Room("R1", "aula", 30, FullAvailability),
                              Room("R2", "aula", 30, AllButFirstCell)>>,
                  studentGroups |->
                     <<Group1A, StudentGroup(<<"2", "-", "A">>, 2, GroupA, 20, FullAvailability)>>,
                  semesterPlan |-> <<>>,
                  schedule |-> entriesOf(<<[courseId |-> IS01, teacherId |-> T1,
                                            roomId |-> "R1", timeSlot |-> 0,
                                            isPinned |-> FALSE], second>>)]
    /\ options = NoOptions
    /\ op = "input"
    /\ arg = <<>>
    /\ result = <<>>

MoveNext == MoveEntry

SpecMove == MoveInit /\ [][MoveNext]_vars

(***************************************************************************)
(* Drag-moves keep a schedule free of collisions (SpecMove)                *)
(***************************************************************************)
\* two entries are in collision: same cell and same room, same non-sentinel
\* teacher or same general group
InCollision(a, b) ==
    /\ a.day = b.day
    /\ a.timeSlot = b.timeSlot
    /\ \/ a.roomId = b.roomId
       \/ a.teacherId = b.teacherId /\ ~Sentinel(a.teacherId)
       \/ ResolvedGroup(a) = ResolvedGroup(b) /\ ResolvedGroup(a) # Null

CollisionFree(schedule) ==
    \A k, h \in 1 .. Len(schedule) : k # h => ~InCollision(schedule[k], schedule[h])

\* schedule b is schedule a but for the day and timeSlot of the entry with the id
MovedOnly(a, b, entryId, day, timeSlot) ==
    /\ Len(b) = Len(a)
    /\ \A k \in 1 .. Len(a) :
          b[k] = IF a[k].id = entryId
                 THEN [a[k] EXCEPT !.day = day, !.timeSlot = timeSlot]
                 ELSE a[k]

\* C27: a drag-move changes the schedule only when validateMove returns no
\* conflict, and then only the day and timeSlot of the moved entry; a move
\* with conflicts leaves the schedule as it is. A schedule free of room,
\* teacher and general-group collisions stays so under drag-moves.
C27_MovesKeepCollisionFree ==
    [][op' = "handleMoveEntry" =>
          /\ IF result' = <<>>
             THEN MovedOnly(state.schedule, state'.schedule,
                            arg'.entryId, arg'.day, arg'.timeSlot)
             ELSE state'.schedule = state.schedule
          /\ [state' EXCEPT !.schedule = <<>>] = [state EXCEPT !.schedule = <<>>]
          /\ CollisionFree(state.schedule) => CollisionFree(state'.schedule)]_vars

\* after some drag-moves the schedule is still free of collisions
MovesStayCollisionFree == CollisionFree(state.schedule)

\* a move has been accepted that brought the two entries to one cell, where
\* they share neither room nor teacher nor general group
C27_Witness ==
    /\ op = "handleMoveEntry"
    /\ result = <<>>
    /\ state.schedule[1].day = state.schedule[2].day
    /\ state.schedule[1].timeSlot = state.schedule[2].timeSlot
    /\ \E k \in 1 .. 2 :
          /\ state.schedule[k].id = arg.entryId
          /\ state.schedule[k].day = arg.day
          /\ state.schedule[k].timeSlot = arg.timeSlot

\* a move has been refused and the entry is where it was
C27_WitnessRefused ==
    /\ op = "handleMoveEntry"
    /\ result # <<>>
    /\ \E k \in 1 .. 2 :
          /\ state.schedule[k].id = arg.entryId
          /\ <<state.schedule[k].day, state.schedule[k].timeSlot>> # <<arg.day, arg.timeSlot>>

(***************************************************************************)
(* The handlers of the application: pin and unpin                          *)
(***************************************************************************)
\* the most handler calls followed from an initial state
MaxCalls == 4

\* a string is truthy: neither undefined nor empty
TruthyString(s) == s # Undefined /\ s # <<>>

\* s.day === entry.day && s.timeSlot === entry.timeSlot
sameDayAndSlot(slot, entry) == slot.day = entry.day /\ slot.timeSlot = entry.timeSlot

\* faulty variant of unpinnedSlots: the slot list is left as it is
unpinnedSlots_Kept(manualSlots, entry) == manualSlots

\* the manual slots of the assignment after a pin of the entry
pinnedSlots(manualSlots, entry) ==
    IF \E m \in 1 .. Len(manualSlots) : sameDayAndSlot(manualSlots[m], entry)
    THEN manualSlots
    ELSE Append(manualSlots, [day |-> entry.day, timeSlot |-> entry.timeSlot,
                              roomId |-> entry.roomId])

\* the manual slots of the assignment after an unpin of the entry
unpinnedSlots(manualSlots, entry) ==
    LET others(s) == ~sameDayAndSlot(s, entry) IN SelectSeq(manualSlots, others)

\* togglePinEntry(entryId): the state it leaves
togglePinEntry(appState, entryId) ==
    LET found == findById(appState.schedule, entryId)
    IN IF found = <<>> THEN appState
       ELSE
         LET entry == found[1]
             isNowPinned == ~entry.isPinned
             updatedSchedule ==
                [k \in 1 .. Len(appState.schedule) |->
                    IF appState.schedule[k].id = entryId
                    THEN [appState.schedule[k] EXCEPT !.isPinned = isNowPinned]
                    ELSE appState.schedule[k]]
             parts == Split(entry.studentGroupId)
             courseId == Part(parts, 0)
             groupLetter == Part(parts, 1)
             subGroupNum == ParseInt2(Part(parts, 2))
             ofGroup(g) ==
                IF g.group # groupLetter THEN g
                ELSE IF subGroupNum[1] > Len(g[entry.sessionType]) THEN g
                ELSE [g EXCEPT ![entry.sessionType][subGroupNum[1]].manualSlots =
                         IF isNowPinned THEN pinnedSlots(@, entry)
                         ELSE unpinnedSlots(@, entry)]
             ofPlan(p) ==
                IF p.courseId # courseId THEN p
                ELSE [p EXCEPT !.groups = [n \in 1 .. Len(p.groups) |-> ofGroup(p.groups[n])]]
             newSemesterPlan ==
                IF /\ TruthyString(courseId)
                   /\ TruthyString(groupLetter)
                   /\ subGroupNum # <<>>
                   /\ subGroupNum[1] - 1 >= 0
                THEN [c \in 1 .. Len(appState.semesterPlan) |-> ofPlan(appState.semesterPlan[c])]
                ELSE appState.semesterPlan
         IN [appState EXCEPT !.schedule = updatedSchedule, !.semesterPlan = newSemesterPlan]

\* a click on the pin of an entry of the schedule; arg keeps the call and the
\* one before it, each with the state it found
TogglePinEntry ==
    /\ arg.calls < MaxCalls
    /\ \E k \in 1 .. Len(state.schedule) :
          /\ arg' = [calls |-> arg.calls + 1,
                     last |-> <<[op |-> "togglePinEntry", entryId |-> state.schedule[k].id,
                                 before |-> state]>>,
                     previous |-> arg.last]
          /\ state' = togglePinEntry(state, state.schedule[k].id)
    /\ op' = "togglePinEntry"
    /\ UNCHANGED <<options, result>>

(***************************************************************************)
(* SpecPin: pin and unpin of the entry of a one-entry schedule             *)
(***************************************************************************)
\* the cell the entry sits at and another one
CellA == [day |-> "Lunes", timeSlot |-> 0]

CellB == [day |-> "Lunes", timeSlot |-> 1]

\* the manual slots the plan's theory assignment may have when the entry is
\* pinned or unpinned: none, one at the entry's cell (same room, other room),
\* one elsewhere, both
PinSlotChoices ==
    {<<>>,
     <<[day |-> CellA.day, timeSlot |-> CellA.timeSlot, roomId |-> "R1"]>>,
     <<[day |-> CellA.day, timeSlot |-> CellA.timeSlot, roomId |-> "R2"]>>,
     <<[day |-> CellB.day, timeSlot |-> CellB.timeSlot, roomId |-> "R1"]>>,
     <<[day |-> CellB.day, timeSlot |-> CellB.timeSlot, roomId |-> "R1"],
       [day |-> CellA.day, timeSlot |-> CellA.timeSlot, roomId |-> "R1"]>>}

\* the studentGroupId of the entry: subgroup 1 or 2 of group A of the plan's
\* course (the plan has one theory subgroup), of another course, or no subgroup
PinGroupIds ==
    {studentGroupIdOf(IS01, GroupA, 1), studentGroupIdOf(IS01, GroupA, 2),
     studentGroupIdOf(IS02, GroupA, 1), IS01 \o <<"-">> \o GroupA}

PinInit ==
    /\ \E ms \in PinSlotChoices, sg \in PinGroupIds, p \in BOOLEAN, active \in BOOLEAN :
         state = [courses |-> <<Course(IS01, 2, 0)>>,
                  teachers |-> <<Teacher(T1, FullAvailability)>>,
                  rooms |-> <<Room("R1", "aula", 30, FullAvailability),
                              Room("R2", "aula", 30, FullAvailability)>>,
                  studentGroups |-> <<Group1A>>,
                  semesterPlan |->
                     <<[courseId |-> IS01, isActive |-> active,
                        groups |-> <<[group |-> GroupA,
                                      theory |-> <<SubgroupAssignment(T1, "", ms)>>,
                                      practice |-> <<>>, lab |-> <<>>,
                                      seminar |-> <<>>]>>]>>,
                  schedule |-> <<ScheduleEntry(<<"e", 1>>, IS01, T1, "R1", sg,
                                               CellA.day, CellA.timeSlot, "theory", p)>>]
    /\ options = NoOptions
    /\ op = "input"
    /\ arg = [calls |-> 0, last |-> <<>>, previous |-> <<>>]
    /\ result = <<>>

PinNext == TogglePinEntry

SpecPin == PinInit /\ [][PinNext]_vars

(***************************************************************************)
(* C28: pin and unpin as a round trip                                      *)
(***************************************************************************)
\* the last two calls pinned an unpinned entry and then unpinned it
PinThenUnpin ==
    /\ arg.previous # <<>>
    /\ arg.last # <<>>
    /\ arg.previous[1].op = "togglePinEntry"
    /\ arg.last[1].op = "togglePinEntry"
    /\ arg.previous[1].entryId = arg.last[1].entryId
    /\ \E k \in 1 .. Len(arg.previous[1].before.schedule) :
          /\ arg.previous[1].before.schedule[k].id = arg.previous[1].entryId
          /\ ~arg.previous[1].before.schedule[k].isPinned

\* the state before the pin
BeforePin == arg.previous[1].before

\* the entry the pin was about, as it was before the pin
EntryBeforePin == findById(BeforePin.schedule, arg.previous[1].entryId)[1]

\* all manual slots of the plan of a state, in plan order
RECURSIVE SlotsOfAssignments(_, _)
SlotsOfAssignments(assignments, n) ==
    IF n > Len(assignments) THEN <<>>
    ELSE assignments[n].manualSlots \o SlotsOfAssignments(assignments, n + 1)

RECURSIVE SlotsOfGroups(_, _)
SlotsOfGroups(groups, n) ==
    IF n > Len(groups) THEN <<>>
    ELSE SlotsOfAssignments(groups[n].theory, 1) \o SlotsOfAssignments(groups[n].lab, 1)
         \o SlotsOfGroups(groups, n + 1)

RECURSIVE SlotsOfPlan(_, _)
SlotsOfPlan(semesterPlan, n) ==
    IF n > Len(semesterPlan) THEN <<>>
    ELSE SlotsOfGroups(semesterPlan[n].groups, 1) \o SlotsOfPlan(semesterPlan, n + 1)

\* the plan before the pin had a manual slot at the cell of the entry
SlotAtEntryBeforePin ==
    LET slots == SlotsOfPlan(BeforePin.semesterPlan, 1)
    IN \E m \in 1 .. Len(slots) : sameDayAndSlot(slots[m], EntryBeforePin)

\* C28: pinning an unpinned entry and then immediately unpinning it restores
\* both the schedule and the manual slots of the plan to what they were
\* before the pin
C28_PinUnpinRoundTrip ==
    PinThenUnpin =>
        /\ state.schedule = BeforePin.schedule
        /\ state.semesterPlan = BeforePin.semesterPlan

\* the round trip restores the schedule always, and the plan when it had no
\* manual slot at the cell of the entry before the pin
RoundTripWithoutEarlierSlot ==
    PinThenUnpin =>
        /\ state.schedule = BeforePin.schedule
        /\ ~SlotAtEntryBeforePin => state.semesterPlan = BeforePin.semesterPlan

\* a round trip that had a slot to mirror and to remove again
RoundTripMirrored ==
    /\ PinThenUnpin
    /\ ~SlotAtEntryBeforePin
    /\ arg.last[1].before.semesterPlan # BeforePin.semesterPlan
    /\ state.semesterPlan = BeforePin.semesterPlan

\* a round trip that removed a manual slot the plan had before the pin
RoundTripLosesSlot ==
    /\ PinThenUnpin
    /\ SlotAtEntryBeforePin
    /\ arg.last[1].before.semesterPlan = BeforePin.semesterPlan
    /\ Len(SlotsOfPlan(state.semesterPlan, 1)) < Len(SlotsOfPlan(BeforePin.semesterPlan, 1))

(***************************************************************************)
(* SpecApp: Generate, pin, unpin and drag, in any order                    *)
(***************************************************************************)
\* the n-th positive number, counted from c, that no kept entry is named by
RECURSIVE nthUnused(_, _, _)
nthUnused(used, n, c) ==
    IF c \in used THEN nthUnused(used, n, c + 1)
    ELSE IF n = 1 THEN c
    ELSE nthUnused(used, n - 1, c + 1)

\* runScheduler: generateSchedule over the pinned entries of the schedule; the
\* ids of the entries it creates differ from the ids of the entries it keeps
runScheduler(appState, opts) ==
    LET baseSchedule == pinnedOnly(appState.schedule)
        generated == generateSchedule(appState.courses, appState.teachers, appState.rooms,
                                      appState.studentGroups, appState.semesterPlan,
                                      baseSchedule, opts)
        kept == Len(lockedEntries(<<>>, baseSchedule))
        used == {baseSchedule[k].id[2] : k \in 1 .. Len(baseSchedule)}
        schedule == [k \in 1 .. Len(generated.schedule) |->
                        IF k <= kept THEN generated.schedule[k]
                        ELSE [generated.schedule[k] EXCEPT
                                 !.id = generateId(nthUnused(used, @[2], 1))]]
    IN [state |-> [appState EXCEPT !.schedule = schedule],
        unscheduled |-> generated.unscheduled]

\* a click on Generate
RunScheduler ==
    /\ arg.calls < MaxCalls
    /\ arg' = [calls |-> arg.calls + 1,
               last |-> <<[op |-> "runScheduler", entryId |-> Null, before |-> state]>>,
               previous |-> arg.last]
    /\ state' = runScheduler(state, options).state
    /\ result' = runScheduler(state, options).unscheduled
    /\ op' = "runScheduler"
    /\ UNCHANGED options

\* a drag of an entry of the schedule to a cell of Lunes
DragEntry ==
    /\ arg.calls < MaxCalls
    /\ \E k \in 1 .. Len(state.schedule), timeSlot \in SlotIdx :
          /\ arg' = [calls |-> arg.calls + 1,
                     last |-> <<[op |-> "handleMoveEntry", entryId |-> state.schedule[k].id,
                                 before |-> state]>>,
                     previous |-> arg.last]
          /\ result' = validateMove(state, state.schedule[k], "Lunes", timeSlot)
          /\ state' = handleMoveEntry(state, state.schedule[k].id, "Lunes", timeSlot)
    /\ op' = "handleMoveEntry"
    /\ UNCHANGED options

\* one course with one or two theory hours, an empty schedule and a plan
\* without manual slots
AppInit ==
    /\ \E h \in 1 .. 2 :
         state = [courses |-> <<Course(IS01, h, 0)>>,
                  teachers |-> <<Teacher(T1, FullAvailability)>>,
                  rooms |-> <<Room("R1", "aula", 30, FullAvailability),
                              Room("R2", "aula", 30, FullAvailability)>>,
                  studentGroups |-> <<Group1A>>,
                  semesterPlan |->
                     <<[courseId |-> IS01, isActive |-> TRUE,
                        groups |-> <<[group |-> GroupA,
                                      theory |-> <<SubgroupAssignment(T1, "", <<>>)>>,
                                      practice |-> <<>>, lab |-> <<>>,
                                      seminar |-> <<>>]>>]>>,
                  schedule |-> <<>>]
    /\ options = NoOptions
    /\ op = "input"
    /\ arg = [calls |-> 0, last |-> <<>>, previous |-> <<>>]
    /\ result = <<>>

AppNext == RunScheduler \/ TogglePinEntry \/ DragEntry

SpecApp == AppInit /\ [][AppNext]_vars

(***************************************************************************)
(* C29: mirrored manual slots and the entries they came from               *)
(***************************************************************************)
\* the entries of the schedule of the plan's theory assignment
TheoryEntries ==
    LET ofAssignment(e) == /\ e.studentGroupId = studentGroupIdOf(IS01, GroupA, 1)
                           /\ e.sessionType = "theory"
    IN SelectSeq(state.schedule, ofAssignment)

\* every manual slot of the plan sits at the cell of a pinned entry
SlotsAtPinnedEntries(appState) ==
    LET slots == SlotsOfPlan(appState.semesterPlan, 1)
    IN \A m \in 1 .. Len(slots) :
          \E k \in 1 .. Len(appState.schedule) :
             /\ appState.schedule[k].isPinned
             /\ sameDayAndSlot(slots[m], appState.schedule[k])

\* C29: after any sequence of pin, unpin, drag and Generate, every manual slot
\* mirrored into the plan by a pin sits at the cell of its pinned entry, and
\* the schedule has no more entries of a (studentGroupId, sessionType) than
\* the course has required hours
C29_SlotsFollowPinnedEntries ==
    /\ SlotsAtPinnedEntries(state)
    /\ Len(TheoryEntries) <= state.courses[1].theoryHours

\* the last call dragged a pinned entry to another cell
DraggedPinned ==
    /\ op = "handleMoveEntry"
    /\ state # arg.last[1].before
    /\ findById(state.schedule, arg.last[1].entryId)[1].isPinned

\* a step other than an accepted drag of a pinned entry keeps every manual
\* slot at the cell of a pinned entry and the entries within the required hours
SlotsFollowUnlessPinnedDragged ==
    [][(C29_SlotsFollowPinnedEntries /\ ~DraggedPinned')
          => C29_SlotsFollowPinnedEntries']_vars

\* Generate has locked a moved pinned entry and an entry of its stale slot
StaleSlotLocked ==
    /\ op = "runScheduler"
    /\ Len(TheoryEntries) > state.courses[1].theoryHours

(***************************************************************************)
(* SpecRepair: fixSchedule over entries of known and unknown teachers      *)
(***************************************************************************)
\* entries of course IS01 at the first cell of Lunes; T2 is no teacher of the
\* state, so a discarded entry of T2 finds no cell
RepairChoices ==
    {[courseId |-> IS01, teacherId |-> t, roomId |-> r, timeSlot |-> 0, isPinned |-> p] :
        t \in {T1, T2, Null}, r \in {"R1", "R2"}, p \in BOOLEAN}

RepairInit ==
    /\ \E ra \in {FullAvailability, AllButFirstCell},
          es \in SeqsUpTo(RepairChoices, MaxEntries) :
         state = [courses |-> <<Course(IS01, 1, 0)>>,
                  teachers |-> <<Teacher(T1, FullAvailability)>>,
                  rooms |-> <<Room("R1", "aula", 30, ra),
                              Room("R2", "aula", 30, FullAvailability)>>,
                  studentGroups |-> <<Group1A>>,
                  semesterPlan |-> <<>>,
                  schedule |-> entriesOf(es)]
    /\ options = NoOptions
    /\ op = "input"
    /\ arg = <<>>
    /\ result = NoResult

RepairNext == Fix

SpecRepair == RepairInit /\ [][RepairNext]_vars

(***************************************************************************)
(* C30: fixSchedule neither loses nor invents classes                      *)
(***************************************************************************)
\* the ids of the entries of a schedule
IdsOf(schedule) == {schedule[k].id : k \in 1 .. Len(schedule)}

\* the ids of the entries the units returned as unscheduled were made from
UnscheduledIds == {result.unscheduled[n].unit.originalId : n \in 1 .. Len(result.unscheduled)}

\* the entry of the input schedule with the id of an entry of the result
InputOf(e) == findById(state.schedule, e.id)[1]

\* an entry of the result that is not at the cell and room it had in the input
Replaced(e) ==
    \/ InputOf(e).day # e.day
    \/ InputOf(e).timeSlot # e.timeSlot
    \/ InputOf(e).roomId # e.roomId

\* C30: over an input schedule with unique ids, the entries returned plus the
\* units returned as unscheduled are as many as the input entries, every entry
\* returned has the id of an input entry, and an entry placed anew keeps its
\* id and is not pinned
C30_FixConservesEntries ==
    Fixed =>
        /\ Len(result.schedule) + Len(result.unscheduled) = Len(state.schedule)
        /\ IdsOf(result.schedule) \subseteq IdsOf(state.schedule)
        /\ Cardinality(IdsOf(result.schedule)) = Len(result.schedule)
        /\ IdsOf(result.schedule) \cup UnscheduledIds = IdsOf(state.schedule)
        /\ IdsOf(result.schedule) \cap UnscheduledIds = {}
        /\ \A k \in 1 .. Len(result.schedule) :
              Replaced(result.schedule[k]) => ~result.schedule[k].isPinned

\* one entry was placed anew and another one could not be placed
C30_Witness ==
    /\ Fixed
    /\ Cardinality(IdsOf(state.schedule)) = Len(state.schedule)
    /\ result.unscheduled # <<>>
    /\ \E k \in 1 .. Len(result.schedule) : Replaced(result.schedule[k])

====
